---- MODULE Spec2Model ----
(***************************************************************************)
(* A model of the Alertmanager configuration loader (config.Load and the   *)
(* UnmarshalYAML cascade of src/config/config.go) and of the label         *)
(* matchers (types.Matcher, types.Matchers) that the same file carries,    *)
(* with the marshaling of Secret and SecretURL and with repeated and       *)
(* concurrent calls of Load.                                               *)
(* The resolution of a label set against the routing tree and the          *)
(* inhibition predicate, whose code the file does not hold, are modelled   *)
(* from their description on top of the matchers.                          *)
(*                                                                         *)
(* Strings whose order or whose regular-expression reading matters (label  *)
(* names, label values, matcher values) are sequences of byte values, so   *)
(* that Go's bytewise string comparison and the "^(?:" + s + ")$" wrapping *)
(* are computed and not assumed.  Strings that are only compared for       *)
(* equality (receiver names, error texts, URL path segments) are TLA+      *)
(* strings.                                                                *)
(***************************************************************************)
EXTENDS Integers, Sequences, FiniteSets, TLC

VARIABLES
    m,        \* SpecMatcher: the Matcher object under construction, or Nil
    hist,     \* SpecMatcher: how m was built and which methods returned nil
    call,     \* SpecMatcher: the last Match call: [m, lset, out], or Nil
    args,     \* SpecMatchers: the matchers a caller holds, in the caller's order
    ms,       \* SpecMatchers: the Matchers slice: [by, s], or Nil
    mcall,    \* SpecMatchers: the last Matchers.Match call: [ms, lset, out], or Nil
    doc,      \* SpecLoad: the document handed to Load
    res,      \* SpecLoad: what Load returned: [cfg, err], or Nil before the call
    rcall,    \* SpecRoute: the last resolution of a label set: [lset, out], or Nil
    icall,    \* SpecInhibit: the last inhibition test: [rule, source, target, out], or Nil
    loads,    \* SpecReload: what the Load calls returned so far, in order of return
    store,    \* SpecReload: the objects behind pointers, by identity
    inflight, \* SpecReload: the Load calls that decoded and have not returned yet
    sv,       \* SpecSecret: the Secret or SecretURL in hand
    enc,      \* SpecSecret: the last marshal: [format, of, out], or Nil
    dec       \* SpecSecret: the last unmarshal: [kind, format, data, out], or Nil

matcherVars  == <<m, hist, call>>
matchersVars == <<args, ms, mcall>>
loadVars     == <<doc, res, rcall, icall>>
reloadVars   == <<loads, store, inflight>>
secretVars   == <<sv, enc, dec>>
vars == <<m, hist, call, args, ms, mcall, doc, res, rcall, icall,
          loads, store, inflight, sv, enc, dec>>

\* Go's nil pointer, and errors: a message with its %q argument.
Nil == [nil |-> TRUE]
Err(text, arg) == [text |-> text, arg |-> arg]
NoError == Err("", "")

(***************************************************************************)
(* Byte strings.                                                           *)
(***************************************************************************)
sEmpty  == <<>>
sA      == <<97>>                 \* "a"
sB      == <<98>>                 \* "b"
sAB     == <<97, 98>>             \* "ab"
sAorAB  == <<97, 124, 97, 98>>    \* "a|ab"
sDotStar == <<46, 42>>            \* ".*"
sParen  == <<40>>                 \* "(" : does not compile
sWildcard == <<46, 46, 46>>       \* "..."
sDigit  == <<49>>                 \* "1" : not a label name

\* Go's s < t on strings: bytewise lexicographic.
RECURSIVE StrLess(_, _)
StrLess(s, t) ==
    IF t = <<>> THEN FALSE
    ELSE IF s = <<>> THEN TRUE
    ELSE IF Head(s) # Head(t) THEN Head(s) < Head(t)
    ELSE StrLess(Tail(s), Tail(t))

\* model.LabelName.IsValid / model.LabelNameRE: ^[a-zA-Z_][a-zA-Z0-9_]*$
IsAlpha(c) == (c >= 97 /\ c <= 122) \/ (c >= 65 /\ c <= 90) \/ c = 95
IsAlnum(c) == IsAlpha(c) \/ (c >= 48 /\ c <= 57)
IsValidLabelName(s) ==
    /\ Len(s) > 0
    /\ IsAlpha(s[1])
    /\ \A i \in 2..Len(s) : IsAlnum(s[i])

(***************************************************************************)
(* The fragment of package regexp the model needs: a pattern is an         *)
(* alternation (byte 124) of literals, an alternative ".*" stands for any  *)
(* string, and a pattern may be wrapped as "^(?:" p ")$".  A pattern with  *)
(* a parenthesis outside such a wrapper does not compile.                  *)
(***************************************************************************)
AnchorPrefix == <<94, 40, 63, 58>>   \* "^(?:"
AnchorSuffix == <<41, 36>>           \* ")$"

\* The string the code hands to regexp.Compile: "^(?:" + s + ")$".
Anchor(s) == AnchorPrefix \o s \o AnchorSuffix

IsAnchored(s) ==
    /\ Len(s) >= Len(AnchorPrefix) + Len(AnchorSuffix)
    /\ SubSeq(s, 1, Len(AnchorPrefix)) = AnchorPrefix
    /\ SubSeq(s, Len(s) - Len(AnchorSuffix) + 1, Len(s)) = AnchorSuffix

Inner(s) == SubSeq(s, Len(AnchorPrefix) + 1, Len(s) - Len(AnchorSuffix))

RECURSIVE Compiles(_)
Compiles(s) ==
    IF IsAnchored(s) THEN Compiles(Inner(s))
    ELSE \A i \in 1..Len(s) : s[i] # 40 /\ s[i] # 41

\* regexp.Compile: the compiled object keeps its source text, or Nil on error.
Compile(s) == IF Compiles(s) THEN [src |-> s] ELSE Nil

\* The alternatives of an unwrapped pattern.
RECURSIVE Alts(_)
Alts(s) ==
    IF \A i \in 1..Len(s) : s[i] # 124 THEN {s}
    ELSE LET k == CHOOSE i \in 1..Len(s) :
                      s[i] = 124 /\ \A j \in 1..(i - 1) : s[j] # 124
         IN  {SubSeq(s, 1, k - 1)} \cup Alts(SubSeq(s, k + 1, Len(s)))

\* Whether pattern p matches the whole of w.
RECURSIVE FullMatch(_, _)
FullMatch(p, w) ==
    IF IsAnchored(p) THEN FullMatch(Inner(p), w)
    ELSE \E alt \in Alts(p) : alt = sDotStar \/ alt = w

\* (*regexp.Regexp).MatchString: a match anywhere in w, unless p is anchored.
MatchString(re, w) ==
    IF IsAnchored(re.src) THEN FullMatch(Inner(re.src), w)
    ELSE \E i \in 1..(Len(w) + 1) : \E j \in (i - 1)..Len(w) :
             FullMatch(re.src, SubSeq(w, i, j))

(***************************************************************************)
(* Label sets: a Go map from label name to value; a lookup of an absent    *)
(* key yields the zero value "".                                           *)
(***************************************************************************)
LabelNames  == {sA, sB}
LabelValues == {sEmpty, sA, sAB}
LabelSets   == UNION {[D -> LabelValues] : D \in SUBSET LabelNames}

Lookup(lset, name) == IF name \in DOMAIN lset THEN lset[name] ELSE sEmpty

(***************************************************************************)
(* types.Matcher                                                           *)
(***************************************************************************)
MatcherNames  == {sA, sB, sDigit}
MatcherValues == {sEmpty, sA, sAorAB, sDotStar, sParen}

\* The compiled regexps a caller may hand to NewRegexMatcher: compiled from
\* the bare pattern (regexp.MustCompile(p)) or from the wrapped one, as
\* config.Regexp.UnmarshalYAML does.
Regexps == {Compile(s) : s \in {p \in MatcherValues : Compiles(p)}}
               \cup {Compile(Anchor(s)) : s \in {p \in MatcherValues : Compiles(p)}}

\* &Matcher{Name: n, Value: v, IsRegex: r}, also what a JSON decode yields.
MatcherLiteral(n, v, r) == [Name |-> n, Value |-> v, IsRegex |-> r, regex |-> Nil]

NewMatcher(name, value) ==
    [Name |-> name, Value |-> value, IsRegex |-> FALSE, regex |-> Nil]

NewRegexMatcher(name, re) ==
    [Name |-> name, Value |-> re.src, IsRegex |-> TRUE, regex |-> re]

\* Matcher.Init: the matcher afterwards and the error.
Init_(mm) ==
    IF ~mm.IsRegex THEN [m |-> mm, err |-> NoError]
    ELSE LET re == Compile(Anchor(mm.Value))
         IN  IF re = Nil THEN [m |-> mm, err |-> Err("error parsing regexp", "")]
             ELSE [m |-> [mm EXCEPT !.regex = re], err |-> NoError]

\* Matcher.Validate: the error.  It changes nothing.  (Every value of the
\* model is valid UTF-8, so LabelValue.IsValid holds of each.)
Validate(mm) ==
    IF ~IsValidLabelName(mm.Name) THEN Err("invalid name", "")
    ELSE IF mm.IsRegex
         THEN (IF Compile(mm.Value) = Nil THEN Err("invalid regular expression", "") ELSE NoError)
         ELSE (IF Len(mm.Value) = 0 THEN Err("invalid value", "") ELSE NoError)

\* A mutant of Match: an absent label never matches.
MatchAbsentFails(mm, lset) ==
    IF mm.Name \notin DOMAIN lset THEN [panic |-> FALSE, val |-> FALSE]
    ELSE IF mm.IsRegex
         THEN (IF mm.regex = Nil THEN [panic |-> TRUE, val |-> FALSE]
               ELSE [panic |-> FALSE, val |-> MatchString(mm.regex, lset[mm.Name])])
         ELSE [panic |-> FALSE, val |-> lset[mm.Name] = mm.Value]

\* Matcher.Match.  A nil regex is dereferenced by MatchString: a panic.
Match(mm, lset) ==
    LET v == Lookup(lset, mm.Name)
    IN  IF mm.IsRegex
        THEN (IF mm.regex = Nil THEN [panic |-> TRUE, val |-> FALSE]
              ELSE [panic |-> FALSE, val |-> MatchString(mm.regex, v)])
        ELSE [panic |-> FALSE, val |-> v = mm.Value]

(***************************************************************************)
(* SpecMatcher: the life of one Matcher object.                            *)
(***************************************************************************)
NoHist == [origin |-> "none", validated |-> FALSE, inited |-> FALSE]

MatcherIdle ==
    /\ m = Nil
    /\ hist = NoHist
    /\ call = Nil

MatchersIdle ==
    /\ args = <<>>
    /\ ms = Nil
    /\ mcall = Nil

LoadIdle ==
    /\ doc = Nil
    /\ res = Nil
    /\ rcall = Nil
    /\ icall = Nil

ReloadIdle ==
    /\ loads = <<>>
    /\ store = <<>>
    /\ inflight = {}

SecretIdle ==
    /\ sv = Nil
    /\ enc = Nil
    /\ dec = Nil

MatcherInit ==
    /\ MatcherIdle
    /\ ReloadIdle
    /\ SecretIdle
    /\ MatchersIdle
    /\ LoadIdle

NewMatcherCall ==
    \E n \in MatcherNames, v \in MatcherValues :
        /\ m' = NewMatcher(n, v)
        /\ hist' = [NoHist EXCEPT !.origin = "NewMatcher"]
        /\ call' = Nil
        /\ UNCHANGED <<matchersVars, loadVars, reloadVars, secretVars>>

NewRegexMatcherCall ==
    \E n \in MatcherNames, re \in Regexps :
        /\ m' = NewRegexMatcher(n, re)
        /\ hist' = [NoHist EXCEPT !.origin = "NewRegexMatcher"]
        /\ call' = Nil
        /\ UNCHANGED <<matchersVars, loadVars, reloadVars, secretVars>>

LiteralMatcher ==
    \E n \in MatcherNames, v \in MatcherValues, r \in BOOLEAN :
        /\ m' = MatcherLiteral(n, v, r)
        /\ hist' = [NoHist EXCEPT !.origin = "literal"]
        /\ call' = Nil
        /\ UNCHANGED <<matchersVars, loadVars, reloadVars, secretVars>>

ValidateCall ==
    /\ m # Nil
    /\ hist' = [hist EXCEPT !.validated = @ \/ Validate(m) = NoError]
    /\ UNCHANGED <<m, call>>
    /\ UNCHANGED <<matchersVars, loadVars, reloadVars, secretVars>>

InitCall ==
    /\ m # Nil
    /\ m' = Init_(m).m
    /\ hist' = [hist EXCEPT !.inited = @ \/ Init_(m).err = NoError]
    /\ UNCHANGED call
    /\ UNCHANGED <<matchersVars, loadVars, reloadVars, secretVars>>

MatchCall ==
    /\ m # Nil
    /\ \E lset \in LabelSets :
           call' = [m |-> m, lset |-> lset, out |-> Match(m, lset)]
    /\ UNCHANGED <<m, hist>>
    /\ UNCHANGED <<matchersVars, loadVars, reloadVars, secretVars>>

MatcherNext ==
    \/ NewMatcherCall
    \/ NewRegexMatcherCall
    \/ LiteralMatcher
    \/ ValidateCall
    \/ InitCall
    \/ MatchCall

SpecMatcher == MatcherInit /\ [][MatcherNext]_vars

\* C4: an exact (non-regex) Matcher{name, value} matches a label set L if and
\* only if L[name] equals value, a label absent from L counting as "".
C4_ExactMatch ==
    (call # Nil /\ ~call.m.IsRegex) =>
        /\ ~call.out.panic
        /\ call.out.val <=>
               \/ /\ call.m.Name \in DOMAIN call.lset
                  /\ call.lset[call.m.Name] = call.m.Value
               \/ /\ call.m.Name \notin DOMAIN call.lset
                  /\ call.m.Value = sEmpty

\* NewMatcher(name, "") matched a label set that does not hold name.
C4_Witness ==
    /\ call # Nil
    /\ hist.origin = "NewMatcher"
    /\ ~call.m.IsRegex
    /\ call.m.Name \notin DOMAIN call.lset
    /\ call.lset # <<>>
    /\ call.m.Value = sEmpty
    /\ call.out.val

\* C5: a Matcher with isRegex = true that was built by NewRegexMatcher, or
\* built as a plain value and passed through Validate and/or Init, holds a
\* compiled regex that is non-null and anchored to the entire value.
C5_RegexCompiledAndAnchored ==
    (/\ m # Nil
     /\ m.IsRegex
     /\ (hist.origin = "NewRegexMatcher" \/ hist.validated \/ hist.inited))
        => (m.regex # Nil /\ IsAnchored(m.regex.src))

(***************************************************************************)
(* types.Matchers: a slice of matchers, sorted by NewMatchers.             *)
(***************************************************************************)
MaxMatchers == 3

\* A mutant of Less: on a tie of name and value the regex matcher is first.
LessRegexFirst(s, i, j) ==
    IF StrLess(s[j].Name, s[i].Name) THEN FALSE
    ELSE IF StrLess(s[i].Name, s[j].Name) THEN TRUE
    ELSE IF StrLess(s[j].Value, s[i].Value) THEN FALSE
    ELSE IF StrLess(s[i].Value, s[j].Value) THEN TRUE
    ELSE s[i].IsRegex /\ ~s[j].IsRegex

\* Matchers.Less
Less(s, i, j) ==
    IF StrLess(s[j].Name, s[i].Name) THEN FALSE
    ELSE IF StrLess(s[i].Name, s[j].Name) THEN TRUE
    ELSE IF StrLess(s[j].Value, s[i].Value) THEN FALSE
    ELSE IF StrLess(s[i].Value, s[j].Value) THEN TRUE
    ELSE ~s[i].IsRegex /\ s[j].IsRegex

\* Matchers.Swap
Swap(s, i, j) == [s EXCEPT ![i] = s[j], ![j] = s[i]]

\* sort.Sort on fewer than 12 elements is an insertion sort over Less and
\* Swap: for i := 1; i < n; i++ { for j := i; j > 0 && Less(j, j-1); j-- {
\* Swap(j, j-1) } }  (indices from 1 here).
RECURSIVE SortInner(_, _)
SortInner(s, j) ==
    IF j > 1 /\ Less(s, j, j - 1) THEN SortInner(Swap(s, j, j - 1), j - 1) ELSE s

RECURSIVE SortOuter(_, _)
SortOuter(s, i) ==
    IF i > Len(s) THEN s ELSE SortOuter(SortInner(s, i), i + 1)

Sort(s) == SortOuter(s, 2)

\* NewMatchers: the given matchers, sorted.
NewMatchers(s) == Sort(s)

\* A mutant of MatchersMatch: one matching matcher is enough.
RECURSIVE MatchersMatchAny(_, _)
MatchersMatchAny(s, lset) ==
    IF s = <<>> THEN [panic |-> FALSE, val |-> TRUE]
    ELSE LET r == Match(Head(s), lset)
         IN  IF r.panic THEN r
             ELSE IF r.val THEN [panic |-> FALSE, val |-> TRUE]
             ELSE IF Tail(s) = <<>> THEN [panic |-> FALSE, val |-> FALSE]
             ELSE MatchersMatchAny(Tail(s), lset)

\* A mutant of MatchersMatch: only the first matcher is tried.
MatchersMatchFirstOnly(s, lset) ==
    IF s = <<>> THEN [panic |-> FALSE, val |-> TRUE] ELSE Match(Head(s), lset)

\* Matchers.Match: false at the first matcher that does not match.
RECURSIVE MatchersMatch(_, _)
MatchersMatch(s, lset) ==
    IF s = <<>> THEN [panic |-> FALSE, val |-> TRUE]
    ELSE LET r == Match(Head(s), lset)
         IN  IF r.panic THEN r
             ELSE IF ~r.val THEN [panic |-> FALSE, val |-> FALSE]
             ELSE MatchersMatch(Tail(s), lset)

(***************************************************************************)
(* SpecMatchers: a caller holds up to MaxMatchers matchers, makes a        *)
(* Matchers of them (sorted by NewMatchers, or as they stand by a          *)
(* conversion) and matches label sets against it.                          *)
(***************************************************************************)
\* The matchers a caller may hold: exact ones, regex ones that went through
\* Init, one built by NewRegexMatcher from an unanchored regexp, and one that
\* never went through Init.
PoolMatchers ==
    {NewMatcher(n, v) : n \in LabelNames, v \in {sA, sAB}}
        \cup {Init_(MatcherLiteral(n, sA, TRUE)).m : n \in LabelNames}
        \cup {NewRegexMatcher(sA, Compile(sA))}
        \cup {MatcherLiteral(sA, sA, TRUE)}

SeqsUpTo(S, n) == UNION {[1..k -> S] : k \in 0..n}

MatchersInit ==
    /\ MatcherIdle
    /\ ReloadIdle
    /\ SecretIdle
    /\ args \in SeqsUpTo(PoolMatchers, MaxMatchers)
    /\ ms = Nil
    /\ mcall = Nil
    /\ LoadIdle

NewMatchersCall ==
    /\ ms' = [by |-> "NewMatchers", s |-> NewMatchers(args)]
    /\ mcall' = Nil
    /\ UNCHANGED args
    /\ UNCHANGED <<matcherVars, loadVars, reloadVars, secretVars>>

\* Matchers(args): the conversion sorts nothing.
MatchersConversion ==
    /\ ms' = [by |-> "conversion", s |-> args]
    /\ mcall' = Nil
    /\ UNCHANGED args
    /\ UNCHANGED <<matcherVars, loadVars, reloadVars, secretVars>>

MatchersMatchCall ==
    /\ ms # Nil
    /\ \E lset \in LabelSets :
           mcall' = [ms |-> ms.s, lset |-> lset, out |-> MatchersMatch(ms.s, lset)]
    /\ UNCHANGED <<args, ms>>
    /\ UNCHANGED <<matcherVars, loadVars, reloadVars, secretVars>>

MatchersNext ==
    \/ NewMatchersCall
    \/ MatchersConversion
    \/ MatchersMatchCall

SpecMatchers == MatchersInit /\ [][MatchersNext]_vars

IndexPermutations(n) == {f \in [1..n -> 1..n] : \A i \in 1..n : \E j \in 1..n : f[j] = i}
Permuted(s, f) == [i \in 1..Len(s) |-> s[f[i]]]
IsTrue(r) == ~r.panic /\ r.val

\* C6: ms.Match(L) is true if and only if every matcher of ms matches L; the
\* empty Matchers matches every label set; and the result does not depend on
\* the order of the matchers (when no matcher's regex is nil, so that no
\* evaluation panics, the results are the same; in every case the same
\* orders give true).
C6_Conjunction ==
    mcall # Nil =>
        /\ IsTrue(mcall.out) <=>
               \A i \in 1..Len(mcall.ms) : IsTrue(Match(mcall.ms[i], mcall.lset))
        /\ mcall.ms = <<>> => IsTrue(mcall.out)
        /\ \A f \in IndexPermutations(Len(mcall.ms)) :
               LET r == MatchersMatch(Permuted(mcall.ms, f), mcall.lset)
               IN  /\ IsTrue(r) <=> IsTrue(mcall.out)
                   /\ (\A i \in 1..Len(mcall.ms) :
                           mcall.ms[i].IsRegex => mcall.ms[i].regex # Nil)
                          => r = mcall.out

\* An unsorted Matchers of an exact and a regex matcher matched a label set.
C6_Witness ==
    /\ mcall # Nil
    /\ ms.by = "conversion"
    /\ Len(mcall.ms) >= 2
    /\ mcall.ms[1].IsRegex
    /\ ~mcall.ms[2].IsRegex
    /\ mcall.ms[1].Name # mcall.ms[2].Name
    /\ IsTrue(mcall.out)

\* s < t in the lexicographic order of byte strings, stated without a loop.
LexLess(s, t) ==
    \E k \in 0..Len(s) :
        /\ k <= Len(t)
        /\ \A i \in 1..k : s[i] = t[i]
        /\ \/ k = Len(s) /\ k < Len(t)
           \/ k < Len(s) /\ k < Len(t) /\ s[k + 1] < t[k + 1]

\* a comes no later than b in the total order (name, value, exact before regex).
InOrder(a, b) ==
    \/ LexLess(a.Name, b.Name)
    \/ a.Name = b.Name /\ LexLess(a.Value, b.Value)
    \/ a.Name = b.Name /\ a.Value = b.Value /\ (a.IsRegex => b.IsRegex)

Triples(s) == [i \in 1..Len(s) |-> <<s[i].Name, s[i].Value, s[i].IsRegex>>]

\* C7: NewMatchers returns its matchers in the total order (name, then value,
\* then exact before regex); every permutation of the same matchers gives the
\* same sequence of (name, value, isRegex); and NewMatchers leaves a sorted
\* Matchers as it is.
C7_Sorted ==
    (ms # Nil /\ ms.by = "NewMatchers") =>
        /\ \A i, j \in 1..Len(ms.s) : i < j => InOrder(ms.s[i], ms.s[j])
        /\ \A f \in IndexPermutations(Len(args)) :
               Triples(NewMatchers(Permuted(args, f))) = Triples(ms.s)
        /\ NewMatchers(ms.s) = ms.s

\* A regex matcher handed in before the exact matcher of the same name and
\* value comes out after it.
C7_Witness ==
    /\ ms # Nil
    /\ ms.by = "NewMatchers"
    /\ Len(args) >= 2
    /\ args[1].IsRegex
    /\ ~args[2].IsRegex
    /\ args[1].Name = args[2].Name
    /\ args[1].Value = args[2].Value
    /\ ~ms.s[1].IsRegex
    /\ ms.s[2].IsRegex

(***************************************************************************)
(* config.Config.  A document is the YAML text as a tree: the keys that    *)
(* are present with their values.  The pointers that the defaulting pass   *)
(* copies, to URL, SecretURL and HTTPClientConfig, are references into a   *)
(* heap, so that two fields holding the same pointer are the same object.  *)
(***************************************************************************)
NilRef == <<"nil", "", "", 0, 0>>
GlobalRef(field) == <<"global", "Global", field, 0, 0>>
LocalRef(list, field, r, c) == <<"local", list, field, r, c>>

URL(host, path) == [host |-> host, path |-> path]

\* strings.HasSuffix(u.Path, "/"); a path is the sequence of its segments
\* and separators.
HasSlashSuffix(path) == Len(path) > 0 /\ path[Len(path)] = "/"

HostPort(host, port) == [Host |-> host, Port |-> port]
\* HostPort.String() == ""
HostPortIsEmpty(hp) == hp.Host = "" /\ hp.Port = ""

\* DefaultGlobalConfig, its pointers still as the values they point to.
DefaultGlobalConfig ==
    [ResolveTimeout   |-> "5m",
     HTTPConfig       |-> [client |-> "default"],
     SMTPFrom         |-> "",
     SMTPHello        |-> "localhost",
     SMTPSmarthost    |-> HostPort("", ""),
     SMTPAuthUsername |-> "",
     SMTPAuthPassword |-> "",
     SMTPAuthSecret   |-> "",
     SMTPAuthIdentity |-> "",
     SMTPRequireTLS   |-> TRUE,
     SlackAPIURL      |-> Nil,
     PagerdutyURL     |-> URL("events.pagerduty.com", <<"/", "v2", "/", "enqueue">>),
     OpsGenieAPIURL   |-> URL("api.opsgenie.com", <<"/">>),
     OpsGenieAPIKey   |-> "",
     WeChatAPIURL     |-> URL("qyapi.weixin.qq.com", <<"/", "cgi-bin", "/">>),
     WeChatAPISecret  |-> "",
     WeChatAPICorpID  |-> "",
     VictorOpsAPIURL  |-> URL("alert.victorops.com",
                              <<"/", "integrations", "/", "generic", "/",
                                "20131114", "/", "alert", "/">>),
     VictorOpsAPIKey  |-> ""]

\* The pointer fields of GlobalConfig and of the channel configs.
GlobalPointerFields ==
    {"HTTPConfig", "SlackAPIURL", "PagerdutyURL", "OpsGenieAPIURL",
     "WeChatAPIURL", "VictorOpsAPIURL"}

PointerFields ==
    [WebhookConfigs   |-> {"HTTPConfig"},
     EmailConfigs     |-> {},
     SlackConfigs     |-> {"HTTPConfig", "APIURL"},
     PushoverConfigs  |-> {"HTTPConfig"},
     PagerdutyConfigs |-> {"HTTPConfig", "URL"},
     OpsGenieConfigs  |-> {"HTTPConfig", "APIURL"},
     WechatConfigs    |-> {"HTTPConfig", "APIURL"},
     VictorOpsConfigs |-> {"HTTPConfig", "APIURL"}]

ConfigLists == DOMAIN PointerFields

\* GlobalConfig.UnmarshalYAML: the defaults, overwritten by the keys given.
GlobalUnmarshalYAML(given) ==
    [f \in DOMAIN DefaultGlobalConfig |->
        IF f \in DOMAIN given THEN given[f] ELSE DefaultGlobalConfig[f]]

\* Receiver.UnmarshalYAML
ReceiverUnmarshalYAML(rcv) ==
    IF rcv.Name = "" THEN Err("missing name in receiver", "") ELSE NoError

\* A mutant of RegexpUnmarshalYAML: the pattern compiled as it stands.
RegexpUnmarshalYAMLBare(s) == [Regexp |-> Compile(s), original |-> s]

\* Regexp.UnmarshalYAML: the pattern compiled inside "^(?:" ")$".
RegexpUnmarshalYAML(s) == [Regexp |-> Compile(Anchor(s)), original |-> s]

\* MatchRegexps.UnmarshalYAML and Route.UnmarshalYAML's check of the match
\* keys, for one node: the error of the node itself.
RouteNodeError(node) ==
    IF \E k \in DOMAIN node.MatchRE : RegexpUnmarshalYAML(node.MatchRE[k]).Regexp = Nil
        THEN Err("error parsing regexp", "")
    ELSE IF \E k \in DOMAIN node.MatchRE : ~IsValidLabelName(k)
        THEN Err("invalid label name", "")
    ELSE IF \E k \in DOMAIN node.Match : ~IsValidLabelName(k)
        THEN Err("invalid label name", "")
    ELSE NoError

\* The explicit names of a group_by list, in order: r.GroupBy as the loop
\* over r.GroupByStr appends to it.
GroupByNames(strs) == SelectSeq(strs, LAMBDA l : l # sWildcard)

\* A mutant of GroupByError: the wildcard may stand next to explicit names.
GroupByErrorWildcardMixed(node) ==
    LET strs    == node.GroupByStr
        invalid == {i \in 1..Len(strs) : strs[i] # sWildcard /\ ~IsValidLabelName(strs[i])}
        names   == GroupByNames(strs)
        repeats == {j \in 1..Len(names) : \E i \in 1..(j - 1) : names[i] = names[j]}
    IN  IF invalid # {}
        THEN Err("invalid label name in group_by list",
                 strs[CHOOSE i \in invalid : \A k \in invalid : i <= k])
        ELSE IF repeats # {}
        THEN Err("duplicated label in group_by",
                 names[CHOOSE j \in repeats : \A k \in repeats : j <= k])
        ELSE NoError

\* Route.UnmarshalYAML's checks of group_by: the loop over r.GroupByStr
\* stops at the first entry that is neither "..." nor a label name, then
\* the wildcard may not stand next to explicit names, then the first
\* explicit name met a second time is an error.
GroupByError(node) ==
    LET strs    == node.GroupByStr
        invalid == {i \in 1..Len(strs) : strs[i] # sWildcard /\ ~IsValidLabelName(strs[i])}
        names   == GroupByNames(strs)
        repeats == {j \in 1..Len(names) : \E i \in 1..(j - 1) : names[i] = names[j]}
    IN  IF invalid # {}
        THEN Err("invalid label name in group_by list",
                 strs[CHOOSE i \in invalid : \A k \in invalid : i <= k])
        ELSE IF Len(names) > 0 /\ (\E i \in 1..Len(strs) : strs[i] = sWildcard)
        THEN Err("cannot have wildcard group_by and other other labels at the same time", "")
        ELSE IF repeats # {}
        THEN Err("duplicated label in group_by",
                 names[CHOOSE j \in repeats : \A k \in repeats : j <= k])
        ELSE NoError

\* A *model.Duration that is not nil.
Duration(n) == [d |-> n]

\* A mutant of IntervalError: a zero repeat_interval passes.
IntervalErrorGroupOnly(node) ==
    IF node.GroupInterval # Nil /\ node.GroupInterval.d = 0
        THEN Err("group_interval cannot be zero", "")
    ELSE NoError

\* Route.UnmarshalYAML's checks of the durations: group_interval, then
\* repeat_interval; group_wait is not looked at.
IntervalError(node) ==
    IF node.GroupInterval # Nil /\ node.GroupInterval.d = 0
        THEN Err("group_interval cannot be zero", "")
    ELSE IF node.RepeatInterval # Nil /\ node.RepeatInterval.d = 0
        THEN Err("repeat_interval cannot be zero", "")
    ELSE NoError

\* Route.UnmarshalYAML after the plain decode, for one node: the match
\* keys, group_by, the durations.
RouteOwnError(node) ==
    IF RouteNodeError(node) # NoError THEN RouteNodeError(node)
    ELSE IF GroupByError(node) # NoError THEN GroupByError(node)
    ELSE IntervalError(node)

\* Route.UnmarshalYAML over a tree: the plain decode runs the hook of every
\* child before the node's own checks; the first error ends the decode.
RECURSIVE RouteUnmarshalYAML(_)
RECURSIVE RoutesUnmarshalYAML(_, _)
RoutesUnmarshalYAML(routes, i) ==
    IF i > Len(routes) THEN NoError
    ELSE LET e == RouteUnmarshalYAML(routes[i])
         IN  IF e # NoError THEN e ELSE RoutesUnmarshalYAML(routes, i + 1)

RouteUnmarshalYAML(node) ==
    LET e == RoutesUnmarshalYAML(node.Routes, 1)
    IN  IF e # NoError THEN e ELSE RouteOwnError(node)

\* The Route the decode builds: the regexps compiled, GroupBy and
\* GroupByAll filled from GroupByStr.
RECURSIVE DecodedRoute(_)
DecodedRoute(node) ==
    [node EXCEPT
        !.GroupBy = GroupByNames(node.GroupByStr),
        !.GroupByAll = \E i \in 1..Len(node.GroupByStr) : node.GroupByStr[i] = sWildcard,
        !.MatchRE = [k \in DOMAIN node.MatchRE |-> RegexpUnmarshalYAML(node.MatchRE[k])],
        !.Routes = [i \in 1..Len(node.Routes) |-> DecodedRoute(node.Routes[i])]]

\* InhibitRule.UnmarshalYAML: the plain decode runs the hooks of the two
\* regexp maps, then the keys of source_match and target_match are checked.
InhibitRuleError(rule) ==
    IF \E k \in DOMAIN rule.SourceMatchRE : RegexpUnmarshalYAML(rule.SourceMatchRE[k]).Regexp = Nil
        THEN Err("error parsing regexp", "")
    ELSE IF \E k \in DOMAIN rule.SourceMatchRE : ~IsValidLabelName(k)
        THEN Err("invalid label name", "")
    ELSE IF \E k \in DOMAIN rule.TargetMatchRE : RegexpUnmarshalYAML(rule.TargetMatchRE[k]).Regexp = Nil
        THEN Err("error parsing regexp", "")
    ELSE IF \E k \in DOMAIN rule.TargetMatchRE : ~IsValidLabelName(k)
        THEN Err("invalid label name", "")
    ELSE IF \E k \in DOMAIN rule.SourceMatch : ~IsValidLabelName(k)
        THEN Err("invalid label name", "")
    ELSE IF \E k \in DOMAIN rule.TargetMatch : ~IsValidLabelName(k)
        THEN Err("invalid label name", "")
    ELSE NoError

\* The first error of the rules' hooks, in list order.
RECURSIVE InhibitRulesUnmarshalYAML(_, _)
InhibitRulesUnmarshalYAML(rules, i) ==
    IF i > Len(rules) THEN NoError
    ELSE IF InhibitRuleError(rules[i]) # NoError THEN InhibitRuleError(rules[i])
    ELSE InhibitRulesUnmarshalYAML(rules, i + 1)

\* The InhibitRule the decode builds: the regexps compiled.
DecodedInhibitRule(rule) ==
    [rule EXCEPT
        !.SourceMatchRE = [k \in DOMAIN rule.SourceMatchRE |->
                              RegexpUnmarshalYAML(rule.SourceMatchRE[k])],
        !.TargetMatchRE = [k \in DOMAIN rule.TargetMatchRE |->
                              RegexpUnmarshalYAML(rule.TargetMatchRE[k])]]

\* The receivers the decode builds: each pointer field nil or a fresh object.
DecodedReceiver(rcv, r) ==
    [l \in DOMAIN rcv |->
        IF l = "Name" THEN rcv.Name
        ELSE [c \in 1..Len(rcv[l]) |->
                [f \in DOMAIN rcv[l][c] |->
                    IF f \in PointerFields[l]
                    THEN (IF rcv[l][c][f] = Nil THEN NilRef ELSE LocalRef(l, f, r, c))
                    ELSE rcv[l][c][f]]]]

DecodedGlobal(g) ==
    [f \in DOMAIN g |->
        IF f \in GlobalPointerFields
        THEN (IF g[f] = Nil THEN NilRef ELSE GlobalRef(f))
        ELSE g[f]]

\* The objects the decode allocated, by reference.
DecodedHeap(g, rcvs) ==
    LET grefs == {GlobalRef(f) : f \in {x \in GlobalPointerFields : g[x] # Nil}}
        lrefs == UNION {UNION {UNION {
                     {LocalRef(l, f, r, c) : f \in {x \in PointerFields[l] : rcvs[r][l][c][x] # Nil}}
                     : c \in 1..Len(rcvs[r][l])}
                     : l \in ConfigLists}
                     : r \in 1..Len(rcvs)}
    IN  [ref \in grefs \cup lrefs |->
            IF ref[1] = "global" THEN g[ref[3]]
            ELSE rcvs[ref[4]][ref[2]][ref[5]][ref[3]]]

(***************************************************************************)
(* Config.UnmarshalYAML: the pass over the receivers.  Its state st is the *)
(* Config being filled (Global, Receivers, the heap), the set of names     *)
(* seen and the error; once the error is set the code has returned and     *)
(* nothing more is done.                                                   *)
(***************************************************************************)
Fail(st, text, arg) == [st EXCEPT !.err = Err(text, arg)]

SetField(st, r, l, c, f, v) == [st EXCEPT !.Receivers[r][l][c][f] = v]

\* if x.HTTPConfig == nil { x.HTTPConfig = c.Global.HTTPConfig }
DefaultHTTPConfig(st, r, l, c) ==
    IF st.err # NoError THEN st
    ELSE IF st.Receivers[r][l][c].HTTPConfig = NilRef
         THEN SetField(st, r, l, c, "HTTPConfig", st.Global.HTTPConfig)
         ELSE st

\* A mutant of RequirePointer: the global pointer replaces a local one.
RequirePointerGlobalFirst(st, r, l, c, f, gf, text) ==
    IF st.err # NoError THEN st
    ELSE IF st.Global[gf] = NilRef
         THEN (IF st.Receivers[r][l][c][f] = NilRef THEN Fail(st, text, "") ELSE st)
         ELSE SetField(st, r, l, c, f, st.Global[gf])

\* if x.F == nil { if c.Global.GF == nil { return error }; x.F = c.Global.GF }
RequirePointer(st, r, l, c, f, gf, text) ==
    IF st.err # NoError THEN st
    ELSE IF st.Receivers[r][l][c][f] = NilRef
         THEN (IF st.Global[gf] = NilRef THEN Fail(st, text, "")
               ELSE SetField(st, r, l, c, f, st.Global[gf]))
         ELSE st

\* A mutant of RequireString: an empty global value is copied without error.
RequireStringNoCheck(st, r, l, c, f, gf, text) ==
    IF st.err # NoError THEN st
    ELSE IF st.Receivers[r][l][c][f] = ""
         THEN SetField(st, r, l, c, f, st.Global[gf])
         ELSE st

\* if x.F == "" { if c.Global.GF == "" { return error }; x.F = c.Global.GF }
RequireString(st, r, l, c, f, gf, text) ==
    IF st.err # NoError THEN st
    ELSE IF st.Receivers[r][l][c][f] = ""
         THEN (IF st.Global[gf] = "" THEN Fail(st, text, "")
               ELSE SetField(st, r, l, c, f, st.Global[gf]))
         ELSE st

\* if x.F == "" { x.F = c.Global.GF }
DefaultString(st, r, l, c, f, gf) ==
    IF st.err # NoError THEN st
    ELSE IF st.Receivers[r][l][c][f] = ""
         THEN SetField(st, r, l, c, f, st.Global[gf])
         ELSE st

\* A mutant of SlashSuffix: a URL taken from the global block is left as
\* it is.
SlashSuffixLocalOnly(st, r, l, c) ==
    IF st.err # NoError THEN st
    ELSE LET ref == st.Receivers[r][l][c].APIURL
         IN  IF ref[1] = "local" /\ ~HasSlashSuffix(st.heap[ref].path)
             THEN [st EXCEPT !.heap[ref].path = Append(@, "/")]
             ELSE st

\* if !strings.HasSuffix(x.APIURL.Path, "/") { x.APIURL.Path += "/" }: a
\* write to the object the field points to.
SlashSuffix(st, r, l, c) ==
    IF st.err # NoError THEN st
    ELSE LET ref == st.Receivers[r][l][c].APIURL
         IN  IF ~HasSlashSuffix(st.heap[ref].path)
             THEN [st EXCEPT !.heap[ref].path = Append(@, "/")]
             ELSE st

WebhookStep(st, r, c) == DefaultHTTPConfig(st, r, "WebhookConfigs", c)

EmailStep(st, r, c) ==
    LET l  == "EmailConfigs"
        s1 == IF st.err # NoError THEN st
              ELSE IF HostPortIsEmpty(st.Receivers[r][l][c].Smarthost)
                   THEN (IF HostPortIsEmpty(st.Global.SMTPSmarthost)
                         THEN Fail(st, "no global SMTP smarthost set", "")
                         ELSE SetField(st, r, l, c, "Smarthost", st.Global.SMTPSmarthost))
                   ELSE st
        s2 == RequireString(s1, r, l, c, "From", "SMTPFrom", "no global SMTP from set")
        s3 == DefaultString(s2, r, l, c, "Hello", "SMTPHello")
        s4 == DefaultString(s3, r, l, c, "AuthUsername", "SMTPAuthUsername")
        s5 == DefaultString(s4, r, l, c, "AuthPassword", "SMTPAuthPassword")
        s6 == DefaultString(s5, r, l, c, "AuthSecret", "SMTPAuthSecret")
        s7 == DefaultString(s6, r, l, c, "AuthIdentity", "SMTPAuthIdentity")
    IN  IF s7.err # NoError THEN s7
        ELSE IF s7.Receivers[r][l][c].RequireTLS = Nil
             THEN SetField(s7, r, l, c, "RequireTLS", [v |-> s7.Global.SMTPRequireTLS])
             ELSE s7

SlackStep(st, r, c) ==
    LET l  == "SlackConfigs"
        s1 == DefaultHTTPConfig(st, r, l, c)
    IN  RequirePointer(s1, r, l, c, "APIURL", "SlackAPIURL", "no global Slack API URL set")

PushoverStep(st, r, c) == DefaultHTTPConfig(st, r, "PushoverConfigs", c)

PagerdutyStep(st, r, c) ==
    LET l  == "PagerdutyConfigs"
        s1 == DefaultHTTPConfig(st, r, l, c)
    IN  RequirePointer(s1, r, l, c, "URL", "PagerdutyURL", "no global PagerDuty URL set")

OpsGenieStep(st, r, c) ==
    LET l  == "OpsGenieConfigs"
        s1 == DefaultHTTPConfig(st, r, l, c)
        s2 == RequirePointer(s1, r, l, c, "APIURL", "OpsGenieAPIURL", "no global OpsGenie URL set")
        s3 == SlashSuffix(s2, r, l, c)
    IN  RequireString(s3, r, l, c, "APIKey", "OpsGenieAPIKey", "no global OpsGenie API Key set")

WechatStep(st, r, c) ==
    LET l  == "WechatConfigs"
        s1 == DefaultHTTPConfig(st, r, l, c)
        s2 == RequirePointer(s1, r, l, c, "APIURL", "WeChatAPIURL", "no global Wechat URL set")
        s3 == RequireString(s2, r, l, c, "APISecret", "WeChatAPISecret", "no global Wechat ApiSecret set")
        s4 == RequireString(s3, r, l, c, "CorpID", "WeChatAPICorpID", "no global Wechat CorpID set")
    IN  SlashSuffix(s4, r, l, c)

VictorOpsStep(st, r, c) ==
    LET l  == "VictorOpsConfigs"
        s1 == DefaultHTTPConfig(st, r, l, c)
        s2 == RequirePointer(s1, r, l, c, "APIURL", "VictorOpsAPIURL", "no global VictorOps URL set")
        s3 == SlashSuffix(s2, r, l, c)
    IN  RequireString(s3, r, l, c, "APIKey", "VictorOpsAPIKey", "no global VictorOps API Key set")

\* The body of the loop over the configs of list l.
ConfigStep(st, r, l, c) ==
    CASE l = "WebhookConfigs"   -> WebhookStep(st, r, c)
      [] l = "EmailConfigs"     -> EmailStep(st, r, c)
      [] l = "SlackConfigs"     -> SlackStep(st, r, c)
      [] l = "PushoverConfigs"  -> PushoverStep(st, r, c)
      [] l = "PagerdutyConfigs" -> PagerdutyStep(st, r, c)
      [] l = "OpsGenieConfigs"  -> OpsGenieStep(st, r, c)
      [] l = "WechatConfigs"    -> WechatStep(st, r, c)
      [] l = "VictorOpsConfigs" -> VictorOpsStep(st, r, c)

\* for _, x := range rcv.L { ... }, from the c-th element on.
RECURSIVE Range(_, _, _, _)
Range(st, r, l, c) ==
    IF st.err # NoError \/ c > Len(st.Receivers[r][l]) THEN st
    ELSE Range(ConfigStep(st, r, l, c), r, l, c + 1)

\* A mutant of NameSeen: no name is ever found in the map.
NameSeenNever(st, r) == FALSE

\* if _, ok := names[rcv.Name]; ok
NameSeen(st, r) == st.Receivers[r].Name \in st.names

\* The body of for _, rcv := range c.Receivers.
ReceiverStep(st, r) ==
    IF NameSeen(st, r)
    THEN Fail(st, "notification config name is not unique", st.Receivers[r].Name)
    ELSE LET s1 == Range(st, r, "WebhookConfigs", 1)
             s2 == Range(s1, r, "EmailConfigs", 1)
             s3 == Range(s2, r, "SlackConfigs", 1)
             s4 == Range(s3, r, "PushoverConfigs", 1)
             s5 == Range(s4, r, "PagerdutyConfigs", 1)
             s6 == Range(s5, r, "OpsGenieConfigs", 1)
             s7 == Range(s6, r, "WechatConfigs", 1)
             s8 == Range(s7, r, "VictorOpsConfigs", 1)
         IN  IF s8.err # NoError THEN s8
             ELSE [s8 EXCEPT !.names = @ \cup {st.Receivers[r].Name}]

RECURSIVE ReceiversPass(_, _)
ReceiversPass(st, r) ==
    IF st.err # NoError \/ r > Len(st.Receivers) THEN st
    ELSE ReceiversPass(ReceiverStep(st, r), r + 1)

\* A mutant of checkReceiver: the node is checked, its children are not.
checkReceiverShallow(r, receivers) ==
    IF r.Receiver = "" THEN NoError
    ELSE IF r.Receiver \notin receivers
         THEN Err("undefined receiver used in route", r.Receiver)
         ELSE NoError

\* checkReceiver: the children first, in order, then the node itself.
RECURSIVE checkReceiver(_, _)
RECURSIVE checkRoutes(_, _, _)
checkRoutes(routes, i, receivers) ==
    IF i > Len(routes) THEN NoError
    ELSE LET e == checkReceiver(routes[i], receivers)
         IN  IF e # NoError THEN e ELSE checkRoutes(routes, i + 1, receivers)

checkReceiver(r, receivers) ==
    LET e == checkRoutes(r.Routes, 1, receivers)
    IN  IF e # NoError THEN e
        ELSE IF r.Receiver = "" THEN NoError
        ELSE IF r.Receiver \notin receivers
             THEN Err("undefined receiver used in route", r.Receiver)
             ELSE NoError

\* A mutant of RootRouteError: a root route without a receiver passes.
RootRouteErrorNoReceiver(route) ==
    IF route = Nil THEN Err("no routes provided", "")
    ELSE IF Cardinality(DOMAIN route.Match) > 0 \/ Cardinality(DOMAIN route.MatchRE) > 0
         THEN Err("root route must not have any matchers", "")
         ELSE NoError

\* Config.UnmarshalYAML's checks of the root route.
RootRouteError(route) ==
    IF route = Nil THEN Err("no routes provided", "")
    ELSE IF route.Receiver = ""
         THEN Err("root route must specify a default receiver", "")
    ELSE IF Cardinality(DOMAIN route.Match) > 0 \/ Cardinality(DOMAIN route.MatchRE) > 0
         THEN Err("root route must not have any matchers", "")
         ELSE NoError

\* The Config of a state of the receivers pass.
ConfigOf(plain, st) ==
    [Global       |-> st.Global,
     Route        |-> plain.Route,
     InhibitRules |-> plain.InhibitRules,
     Receivers    |-> st.Receivers,
     heap         |-> st.heap,
     original     |-> ""]

\* Config.UnmarshalYAML as the plain decode returns: Global restored to the
\* defaults if nil, no name seen yet.
AfterPlainDecode(plain, g) ==
    [Global    |-> DecodedGlobal(g),
     Receivers |-> [r \in 1..Len(plain.Receivers) |->
                       DecodedReceiver(plain.Receivers[r], r)],
     heap      |-> DecodedHeap(g, plain.Receivers),
     names     |-> {},
     err       |-> NoError]

\* Config.UnmarshalYAML from the end of the receivers pass on: the error of
\* the pass, or else of the root route, or else of checkReceiver.
AfterReceiversPass(plain, st) ==
    [c   |-> ConfigOf(plain, st),
     err |-> IF st.err # NoError THEN st.err
             ELSE IF RootRouteError(plain.Route) # NoError
                  THEN RootRouteError(plain.Route)
                  ELSE checkReceiver(plain.Route, st.names)]

\* Config.UnmarshalYAML after the plain decode: the Config as it stands when
\* the method returns, and the error.
ConfigUnmarshalYAML(plain) ==
    AfterReceiversPass(plain,
        ReceiversPass(AfterPlainDecode(plain, IF plain.Global = Nil
                                              THEN DefaultGlobalConfig
                                              ELSE plain.Global), 1))

\* The first error of the receivers' hooks, in list order.
RECURSIVE ReceiversUnmarshalYAML(_, _)
ReceiversUnmarshalYAML(rcvs, r) ==
    IF r > Len(rcvs) THEN NoError
    ELSE IF ReceiverUnmarshalYAML(rcvs[r]) # NoError THEN ReceiverUnmarshalYAML(rcvs[r])
    ELSE ReceiversUnmarshalYAML(rcvs, r + 1)

\* &Config{}
ZeroConfig ==
    [Global |-> Nil, Route |-> Nil, InhibitRules |-> <<>>, Receivers |-> <<>>,
     heap |-> <<>>, original |-> ""]

\* yaml.UnmarshalStrict([]byte(s), cfg): an empty document does not call
\* Config.UnmarshalYAML at all; otherwise the plain decode runs the hooks of
\* the parts (here in the order global, route, inhibit_rules, receivers)
\* and stops at the first error, and then Config.UnmarshalYAML does its own
\* work.
UnmarshalStrict(d) ==
    IF d.empty THEN [c |-> ZeroConfig, err |-> NoError]
    ELSE LET routeErr == IF d.route = Nil THEN NoError ELSE RouteUnmarshalYAML(d.route)
             inhErr   == InhibitRulesUnmarshalYAML(d.inhibit_rules, 1)
             rcvErr   == ReceiversUnmarshalYAML(d.receivers, 1)
             plain    == [Global       |-> IF d.global.present
                                           THEN GlobalUnmarshalYAML(d.global.given)
                                           ELSE Nil,
                          Route        |-> IF d.route = Nil \/ routeErr # NoError
                                           THEN Nil ELSE DecodedRoute(d.route),
                          InhibitRules |-> IF inhErr # NoError THEN <<>>
                                           ELSE [i \in 1..Len(d.inhibit_rules) |->
                                                    DecodedInhibitRule(d.inhibit_rules[i])],
                          Receivers    |-> d.receivers]
         IN  IF routeErr # NoError THEN [c |-> ZeroConfig, err |-> routeErr]
             ELSE IF inhErr # NoError THEN [c |-> ZeroConfig, err |-> inhErr]
             ELSE IF rcvErr # NoError THEN [c |-> ZeroConfig, err |-> rcvErr]
             ELSE ConfigUnmarshalYAML(plain)

\* A mutant of LoadReturn: the Config is handed out together with the error
\* of the continue check.
LoadReturnKeepsConfig(u) ==
    IF u.err # NoError THEN [cfg |-> Nil, err |-> u.err]
    ELSE IF u.c.Route = Nil
         THEN [cfg |-> Nil, err |-> Err("no route provided in config", "")]
    ELSE IF u.c.Route.Continue
         THEN [cfg |-> u.c, err |-> Err("cannot have continue in root route", "")]
    ELSE [cfg |-> [u.c EXCEPT !.original = "s"], err |-> NoError]

\* Load after yaml.UnmarshalStrict returned u = (cfg, err): what the caller
\* receives.
LoadReturn(u) ==
    IF u.err # NoError THEN [cfg |-> Nil, err |-> u.err]
    ELSE IF u.c.Route = Nil
         THEN [cfg |-> Nil, err |-> Err("no route provided in config", "")]
    ELSE IF u.c.Route.Continue
         THEN [cfg |-> Nil, err |-> Err("cannot have continue in root route", "")]
    ELSE [cfg |-> [u.c EXCEPT !.original = "s"], err |-> NoError]

\* Load: (cfg, err) as the caller receives them.
Load(d) == LoadReturn(UnmarshalStrict(d))

(***************************************************************************)
(* Documents.                                                              *)
(***************************************************************************)
NoLabels == <<>>

\* A route node of a document: GroupBy and GroupByAll are not read from
\* the document (yaml:"-"), a duration that is not given is nil.
RouteNode(receiver, match, matchRE, continue, routes) ==
    [Receiver |-> receiver, Match |-> match, MatchRE |-> matchRE,
     Continue |-> continue, Routes |-> routes,
     GroupByStr |-> <<>>, GroupBy |-> <<>>, GroupByAll |-> FALSE,
     GroupWait |-> Nil, GroupInterval |-> Nil, RepeatInterval |-> Nil]

ReceiverOf(name) ==
    [Name |-> name, WebhookConfigs |-> <<>>, EmailConfigs |-> <<>>,
     SlackConfigs |-> <<>>, PushoverConfigs |-> <<>>, PagerdutyConfigs |-> <<>>,
     OpsGenieConfigs |-> <<>>, WechatConfigs |-> <<>>, VictorOpsConfigs |-> <<>>]

NoGlobal == [present |-> FALSE, given |-> <<>>]

Document(global, route, receivers) ==
    [empty |-> FALSE, global |-> global, route |-> route,
     inhibit_rules |-> <<>>, receivers |-> receivers]

EmptyDocument ==
    [empty |-> TRUE, global |-> NoGlobal, route |-> Nil,
     inhibit_rules |-> <<>>, receivers |-> <<>>]

(***************************************************************************)
(* SpecLoad: Load on documents that vary the routing tree and the list of  *)
(* receivers.                                                              *)
(***************************************************************************)
MaxChildren == 2
MaxGrandchildren == 1

Leaf(receiver) == RouteNode(receiver, NoLabels, NoLabels, FALSE, <<>>)

GrandNodes == {Leaf(rc) : rc \in {"r1", "zz"}}

ChildNodes ==
    {RouteNode(rc, NoLabels, NoLabels, FALSE, kids) :
        rc \in {"", "r1", "zz"}, kids \in SeqsUpTo(GrandNodes, MaxGrandchildren)}

\* Trees of every shape under a root without matchers.
TreeRoots ==
    {RouteNode(rc, NoLabels, NoLabels, FALSE, kids) :
        rc \in {"r1", "zz"}, kids \in SeqsUpTo(ChildNodes, MaxChildren)}

\* What a root may carry: nothing, match, match_re (one that compiles and
\* one that does not), continue.
RootShapes ==
    {[Match |-> NoLabels, MatchRE |-> NoLabels, Continue |-> FALSE],
     [Match |-> sA :> sA, MatchRE |-> NoLabels, Continue |-> FALSE],
     [Match |-> NoLabels, MatchRE |-> sA :> sA, Continue |-> FALSE],
     [Match |-> NoLabels, MatchRE |-> sA :> sParen, Continue |-> FALSE],
     [Match |-> NoLabels, MatchRE |-> NoLabels, Continue |-> TRUE]}

ShapedRoots ==
    {RouteNode(rc, sh.Match, sh.MatchRE, sh.Continue, kids) :
        rc \in {"", "r1", "zz"}, sh \in RootShapes,
        kids \in {<<>>, <<Leaf("zz")>>,
                  <<RouteNode("r1", NoLabels, NoLabels, FALSE, <<Leaf("zz")>>)>>}}

\* A receiver whose webhook config takes the global HTTP config and whose
\* Slack config finds no API URL, neither its own nor a global one.
HalfDefaultedReceiver(name) ==
    [ReceiverOf(name) EXCEPT
        !.WebhookConfigs = <<[HTTPConfig |-> Nil]>>,
        !.SlackConfigs = <<[HTTPConfig |-> Nil, APIURL |-> Nil]>>]

PlainReceiverLists ==
    {<<>>, <<ReceiverOf("r1")>>, <<ReceiverOf("r1"), ReceiverOf("r2")>>}

OddReceiverLists ==
    {<<ReceiverOf("")>>, <<ReceiverOf("r1"), ReceiverOf("r1")>>,
     <<HalfDefaultedReceiver("r1")>>}

RouteDocs ==
    {EmptyDocument}
        \cup {Document(NoGlobal, Nil, rl) : rl \in PlainReceiverLists \cup OddReceiverLists}
        \cup {Document(NoGlobal, t, rl) : t \in TreeRoots, rl \in PlainReceiverLists}
        \cup {Document(NoGlobal, t, rl) :
                 t \in ShapedRoots, rl \in PlainReceiverLists \cup OddReceiverLists}

LoadInit ==
    /\ MatcherIdle
    /\ ReloadIdle
    /\ SecretIdle
    /\ MatchersIdle
    /\ doc \in RouteDocs
    /\ res = Nil
    /\ rcall = Nil
    /\ icall = Nil

LoadCall ==
    /\ res' = Load(doc)
    /\ UNCHANGED <<doc, rcall, icall>>
    /\ UNCHANGED <<matcherVars, matchersVars, reloadVars, secretVars>>

LoadNext == LoadCall

SpecLoad == LoadInit /\ [][LoadNext]_vars

\* The names of the receivers list of a document.
ListedNames(d) == {d.receivers[i].Name : i \in 1..Len(d.receivers)}

\* The receivers of the nodes of a tree, children before their parent,
\* siblings in declared order.
RECURSIVE PostOrder(_)
RECURSIVE PostOrderAll(_, _)
PostOrderAll(routes, i) ==
    IF i > Len(routes) THEN <<>>
    ELSE PostOrder(routes[i]) \o PostOrderAll(routes, i + 1)
PostOrder(node) == PostOrderAll(node.Routes, 1) \o <<node.Receiver>>

\* The root route of a document is present and as a root must be.
RootValid(d) ==
    /\ ~d.empty
    /\ d.route # Nil
    /\ d.route.Receiver # ""
    /\ DOMAIN d.route.Match = {}
    /\ DOMAIN d.route.MatchRE = {}
    /\ ~d.route.Continue

\* C1: Load returns a Config without error only if the root route is
\* present, has a non-empty receiver, has empty match and match_re and has
\* continue = false; an input that violates one of these is rejected with an
\* error (and without a Config).
C1_RootRoute ==
    res # Nil =>
        /\ ~RootValid(doc) => (res.err # NoError /\ res.cfg = Nil)
        /\ res.err = NoError =>
               /\ res.cfg.Route # Nil
               /\ res.cfg.Route.Receiver # ""
               /\ DOMAIN res.cfg.Route.Match = {}
               /\ DOMAIN res.cfg.Route.MatchRE = {}
               /\ ~res.cfg.Route.Continue

\* A root that is right but for continue = true was rejected.
C1_Witness ==
    /\ res # Nil
    /\ doc.route # Nil
    /\ doc.route.Continue
    /\ doc.route.Receiver = "r1"
    /\ ListedNames(doc) = {"r1"}
    /\ res.err = Err("cannot have continue in root route", "")

UndefinedReceivers(d) ==
    IF d.empty \/ d.route = Nil THEN <<>>
    ELSE SelectSeq(PostOrder(d.route), LAMBDA rc : rc # "" /\ rc \notin ListedNames(d))

\* C2, as stated: whenever some node has a non-empty receiver that is not
\* listed, the load fails with 'undefined receiver' naming that value.
C2_UndefinedReceiverAlwaysNamed ==
    res # Nil =>
        \A i \in 1..Len(UndefinedReceivers(doc)) :
            res.err = Err("undefined receiver used in route", UndefinedReceivers(doc)[i])

\* The errors of the steps that come before checkReceiver.
EarlierErrorTexts ==
    {"error parsing regexp", "invalid label name", "missing name in receiver",
     "notification config name is not unique", "no global Slack API URL set",
     "no routes provided", "root route must specify a default receiver",
     "root route must not have any matchers"}

\* A document on which no step before checkReceiver fails: the root has a
\* receiver and no matchers, the receivers have distinct non-empty names
\* and no channel configs.
CleanUpToCheckReceiver(d) ==
    /\ ~d.empty
    /\ d.route # Nil
    /\ d.route.Receiver # ""
    /\ DOMAIN d.route.Match = {}
    /\ DOMAIN d.route.MatchRE = {}
    /\ \A i \in 1..Len(d.receivers) :
           /\ d.receivers[i].Name # ""
           /\ \A j \in 1..Len(d.receivers) : i # j => d.receivers[i].Name # d.receivers[j].Name
           /\ \A l \in ConfigLists : d.receivers[i][l] = <<>>

\* C2, amended: if some node, at any depth, has a non-empty receiver that is
\* not listed, the load fails; the error is that of an earlier step (decode,
\* receivers pass, root checks) or 'undefined receiver' naming the first
\* such node, children before their parent and siblings in declared order,
\* and it is the latter whenever no earlier step fails.  Nodes with an empty
\* receiver are not checked, and after a successful load every non-empty
\* receiver of the tree names a listed receiver.
C2_FirstUndefinedReceiver ==
    res # Nil =>
        LET bad == UndefinedReceivers(doc)
        IN  /\ bad # <<>> =>
                   /\ res.err # NoError
                   /\ res.cfg = Nil
                   /\ \/ res.err.text \in EarlierErrorTexts
                      \/ res.err = Err("undefined receiver used in route", bad[1])
                   /\ CleanUpToCheckReceiver(doc) =>
                          res.err = Err("undefined receiver used in route", bad[1])
            /\ (bad = <<>> /\ CleanUpToCheckReceiver(doc)) =>
                   res.err.text # "undefined receiver used in route"
            /\ res.err = NoError =>
                   \A i \in 1..Len(PostOrder(res.cfg.Route)) :
                       LET rc == PostOrder(res.cfg.Route)[i]
                       IN  rc = "" \/ \E k \in 1..Len(res.cfg.Receivers) :
                                          res.cfg.Receivers[k].Name = rc

\* A grandchild names a receiver that is not listed, under a child with an
\* empty receiver, and the load failed naming it.
C2_Witness ==
    /\ res # Nil
    /\ doc.route # Nil
    /\ doc.route.Receiver = "r1"
    /\ Len(doc.route.Routes) = 1
    /\ doc.route.Routes[1].Receiver = ""
    /\ Len(doc.route.Routes[1].Routes) = 1
    /\ doc.route.Routes[1].Routes[1].Receiver = "zz"
    /\ ListedNames(doc) = {"r1", "r2"}
    /\ res.err = Err("undefined receiver used in route", "zz")

\* C3: Load returns either a Config and no error, or an error and no Config:
\* whenever a decode, defaulting or validation step fails the caller
\* receives no Config, however far the defaulting had come.
C3_ConfigOrError ==
    res # Nil =>
        \/ res.cfg # Nil /\ res.err = NoError
        \/ res.cfg = Nil /\ res.err # NoError

\* The defaulting had filled in a webhook config when a Slack config
\* failed: the caller received the error and no Config.
C3_Witness ==
    /\ res # Nil
    /\ res.cfg = Nil
    /\ res.err = Err("no global Slack API URL set", "")
    /\ UnmarshalStrict(doc).c.Receivers[1].WebhookConfigs[1].HTTPConfig = GlobalRef("HTTPConfig")

(***************************************************************************)
(* SpecDefaults: Load on documents that vary the channel configs of the    *)
(* receivers and the global block.                                         *)
(***************************************************************************)
MaxConfigs == 2
MaxReceivers == 2

UrlBare == URL("h", <<"/", "v1">>)
UrlSlash == URL("h", <<"/", "v1", "/">>)
UrlGlobal == URL("g", <<"/", "api">>)

EmailConfig(smarthost, from) ==
    [Smarthost |-> smarthost, From |-> from, Hello |-> "", AuthUsername |-> "",
     AuthPassword |-> "", AuthSecret |-> "", AuthIdentity |-> "", RequireTLS |-> Nil]
SlackConfig(url) == [HTTPConfig |-> Nil, APIURL |-> url]
PagerdutyConfig(url) == [HTTPConfig |-> Nil, URL |-> url]
OpsGenieConfig(url, key) == [HTTPConfig |-> Nil, APIURL |-> url, APIKey |-> key]
WechatConfig(url, secret, corpID) ==
    [HTTPConfig |-> Nil, APIURL |-> url, APISecret |-> secret, CorpID |-> corpID]
VictorOpsConfig(url, key) == [HTTPConfig |-> Nil, APIURL |-> url, APIKey |-> key]

\* The configs a receiver may hold, by list.
ConfigInputs ==
    [WebhookConfigs   |-> {[HTTPConfig |-> Nil], [HTTPConfig |-> [client |-> "own"]]},
     EmailConfigs     |-> {EmailConfig(h, f) :
                              h \in {HostPort("", ""), HostPort("mx", "25")},
                              f \in {"", "a@b"}},
     SlackConfigs     |-> {SlackConfig(u) : u \in {Nil, UrlBare}},
     PushoverConfigs  |-> {[HTTPConfig |-> Nil]},
     PagerdutyConfigs |-> {PagerdutyConfig(u) : u \in {Nil, UrlBare}},
     OpsGenieConfigs  |-> {OpsGenieConfig(u, k) :
                              u \in {Nil, UrlBare, UrlSlash}, k \in {"", "k"}},
     WechatConfigs    |-> {WechatConfig(u, s, c) :
                              u \in {Nil, UrlBare}, s \in {"", "s"}, c \in {"", "c"}},
     VictorOpsConfigs |-> {VictorOpsConfig(u, k) :
                              u \in {Nil, UrlBare, UrlSlash}, k \in {"", "k"}}]

\* A key of the global block: absent, or given with one of the values.
Given(key, values) == {<<>>} \cup {key :> v : v \in values}

\* The global blocks tried with the configs of a list: the keys that list
\* falls back to.
GlobalInputs ==
    [WebhookConfigs   |-> {<<>>},
     EmailConfigs     |-> {h @@ f : h \in Given("SMTPSmarthost", {HostPort("gmx", "25")}),
                                    f \in Given("SMTPFrom", {"g@b"})},
     SlackConfigs     |-> Given("SlackAPIURL", {UrlGlobal}),
     PushoverConfigs  |-> {<<>>},
     PagerdutyConfigs |-> Given("PagerdutyURL", {Nil, UrlGlobal}),
     OpsGenieConfigs  |-> {u @@ k : u \in Given("OpsGenieAPIURL", {Nil, UrlGlobal}),
                                    k \in Given("OpsGenieAPIKey", {"gk"})},
     WechatConfigs    |-> {u @@ s @@ c : u \in Given("WeChatAPIURL", {Nil, UrlGlobal}),
                                         s \in Given("WeChatAPISecret", {"gs"}),
                                         c \in Given("WeChatAPICorpID", {"gc"})},
     VictorOpsConfigs |-> {u @@ k : u \in Given("VictorOpsAPIURL", {Nil, UrlGlobal}),
                                    k \in Given("VictorOpsAPIKey", {"gk"})}]

\* One receiver with up to MaxConfigs configs of one list.
OneListDocs ==
    UNION {{Document([present |-> g # <<>>, given |-> g], Leaf("r1"),
                     <<[ReceiverOf("r1") EXCEPT ![l] = cs]>>) :
               cs \in SeqsUpTo(ConfigInputs[l], MaxConfigs) \ {<<>>},
               g \in GlobalInputs[l]} :
           l \in ConfigLists}

\* Up to MaxReceivers receivers with one config each, of any list, under a
\* global block that gives every key, gives no key, or gives null URLs.
MixedConfigs ==
    {[l |-> "WebhookConfigs", cfg |-> [HTTPConfig |-> Nil]],
     [l |-> "EmailConfigs", cfg |-> EmailConfig(HostPort("", ""), "")],
     [l |-> "EmailConfigs", cfg |-> EmailConfig(HostPort("mx", "25"), "a@b")],
     [l |-> "SlackConfigs", cfg |-> SlackConfig(Nil)],
     [l |-> "PagerdutyConfigs", cfg |-> PagerdutyConfig(Nil)],
     [l |-> "OpsGenieConfigs", cfg |-> OpsGenieConfig(Nil, "")],
     [l |-> "OpsGenieConfigs", cfg |-> OpsGenieConfig(UrlBare, "k")],
     [l |-> "WechatConfigs", cfg |-> WechatConfig(Nil, "", "")],
     [l |-> "VictorOpsConfigs", cfg |-> VictorOpsConfig(Nil, "")]}

MixedReceivers ==
    {[ReceiverOf(n) EXCEPT ![t.l] = <<t.cfg>>] : n \in {"r1", "r2"}, t \in MixedConfigs}

EveryKeyGiven ==
    ("SMTPSmarthost" :> HostPort("gmx", "25")) @@ ("SMTPFrom" :> "g@b")
        @@ ("SlackAPIURL" :> UrlGlobal) @@ ("PagerdutyURL" :> UrlGlobal)
        @@ ("OpsGenieAPIURL" :> UrlGlobal) @@ ("OpsGenieAPIKey" :> "gk")
        @@ ("WeChatAPIURL" :> UrlGlobal) @@ ("WeChatAPISecret" :> "gs")
        @@ ("WeChatAPICorpID" :> "gc")
        @@ ("VictorOpsAPIURL" :> UrlGlobal) @@ ("VictorOpsAPIKey" :> "gk")

NullURLsGiven ==
    ("PagerdutyURL" :> Nil) @@ ("OpsGenieAPIURL" :> Nil)
        @@ ("WeChatAPIURL" :> Nil) @@ ("VictorOpsAPIURL" :> Nil)

MixedDocs ==
    {Document(g, Leaf("r1"), rs) :
        g \in {NoGlobal, [present |-> TRUE, given |-> EveryKeyGiven],
               [present |-> TRUE, given |-> NullURLsGiven]},
        rs \in SeqsUpTo(MixedReceivers, MaxReceivers) \ {<<>>}}

\* Receivers lists in which names repeat, one of them behind a receiver
\* whose Slack config finds no URL.
DuplicateNames ==
    {<<"r1", "r2", "r2", "r1">>, <<"r1", "r2", "r1", "r2">>,
     <<"r1", "r1", "r2", "r2">>, <<"r2", "r1", "r2">>, <<"r1", "r2", "r3">>}

DuplicateDocs ==
    {Document(NoGlobal, Leaf("r1"),
              [i \in 1..Len(ns) |->
                  IF i = k THEN [ReceiverOf(ns[i]) EXCEPT !.SlackConfigs = <<SlackConfig(Nil)>>]
                  ELSE ReceiverOf(ns[i])]) :
        ns \in DuplicateNames, k \in 0..3}

ChannelDocs == OneListDocs \cup MixedDocs \cup DuplicateDocs

DefaultsInit ==
    /\ MatcherIdle
    /\ ReloadIdle
    /\ SecretIdle
    /\ MatchersIdle
    /\ doc \in ChannelDocs
    /\ res = Nil
    /\ rcall = Nil
    /\ icall = Nil

DefaultsNext == LoadCall

SpecDefaults == DefaultsInit /\ [][DefaultsNext]_vars

\* The required values of the channel configs, in the order the receivers
\* pass reads them within one receiver: the list, the field, the global
\* field behind it, how "unset" reads, whether the value is a URL that is
\* given a trailing "/", and the error of a missing value.
RequiredValues ==
    <<[l |-> "EmailConfigs", rank |-> 1, f |-> "Smarthost", gf |-> "SMTPSmarthost",
       kind |-> "hostport", slash |-> FALSE, text |-> "no global SMTP smarthost set"],
      [l |-> "EmailConfigs", rank |-> 1, f |-> "From", gf |-> "SMTPFrom",
       kind |-> "string", slash |-> FALSE, text |-> "no global SMTP from set"],
      [l |-> "SlackConfigs", rank |-> 2, f |-> "APIURL", gf |-> "SlackAPIURL",
       kind |-> "pointer", slash |-> FALSE, text |-> "no global Slack API URL set"],
      [l |-> "PagerdutyConfigs", rank |-> 3, f |-> "URL", gf |-> "PagerdutyURL",
       kind |-> "pointer", slash |-> FALSE, text |-> "no global PagerDuty URL set"],
      [l |-> "OpsGenieConfigs", rank |-> 4, f |-> "APIURL", gf |-> "OpsGenieAPIURL",
       kind |-> "pointer", slash |-> TRUE, text |-> "no global OpsGenie URL set"],
      [l |-> "OpsGenieConfigs", rank |-> 4, f |-> "APIKey", gf |-> "OpsGenieAPIKey",
       kind |-> "string", slash |-> FALSE, text |-> "no global OpsGenie API Key set"],
      [l |-> "WechatConfigs", rank |-> 5, f |-> "APIURL", gf |-> "WeChatAPIURL",
       kind |-> "pointer", slash |-> TRUE, text |-> "no global Wechat URL set"],
      [l |-> "WechatConfigs", rank |-> 5, f |-> "APISecret", gf |-> "WeChatAPISecret",
       kind |-> "string", slash |-> FALSE, text |-> "no global Wechat ApiSecret set"],
      [l |-> "WechatConfigs", rank |-> 5, f |-> "CorpID", gf |-> "WeChatAPICorpID",
       kind |-> "string", slash |-> FALSE, text |-> "no global Wechat CorpID set"],
      [l |-> "VictorOpsConfigs", rank |-> 6, f |-> "APIURL", gf |-> "VictorOpsAPIURL",
       kind |-> "pointer", slash |-> TRUE, text |-> "no global VictorOps URL set"],
      [l |-> "VictorOpsConfigs", rank |-> 6, f |-> "APIKey", gf |-> "VictorOpsAPIKey",
       kind |-> "string", slash |-> FALSE, text |-> "no global VictorOps API Key set"]>>

Unset(kind, v) ==
    CASE kind = "hostport" -> v = HostPort("", "")
      [] kind = "string"   -> v = ""
      [] kind = "pointer"  -> v = Nil

\* The global block as the load reads it: the built-in defaults under the
\* keys given.
GlobalOf(d) ==
    IF d.global.present THEN GlobalUnmarshalYAML(d.global.given) ELSE DefaultGlobalConfig

\* The required values of a document: receiver, index in RequiredValues,
\* config.
ValuesOf(d) ==
    {<<r, k, c>> \in (1..Len(d.receivers)) \X (1..Len(RequiredValues)) \X (1..MaxConfigs) :
        c <= Len(d.receivers[r][RequiredValues[k].l])}

LocalValue(d, v) == d.receivers[v[1]][RequiredValues[v[2]].l][v[3]][RequiredValues[v[2]].f]
GlobalValue(d, v) == GlobalOf(d)[RequiredValues[v[2]].gf]

\* The value as the loaded Config holds it.
LoadedValue(cfg, v) ==
    LET req == RequiredValues[v[2]]
        x   == cfg.Receivers[v[1]][req.l][v[3]][req.f]
    IN  IF req.kind = "pointer" THEN cfg.heap[x] ELSE x

LocalElseGlobal(d, v) ==
    IF ~Unset(RequiredValues[v[2]].kind, LocalValue(d, v)) THEN LocalValue(d, v)
    ELSE GlobalValue(d, v)

\* The global value as the loaded Config holds it.
LoadedGlobalValue(cfg, v) ==
    LET req == RequiredValues[v[2]]
        x   == cfg.Global[req.gf]
    IN  IF req.kind # "pointer" THEN x
        ELSE IF x = NilRef THEN Nil ELSE cfg.heap[x]

WithSlash(u) == IF HasSlashSuffix(u.path) THEN u ELSE [u EXCEPT !.path = Append(@, "/")]

\* Unset both locally and globally.
IsMissing(d, v) ==
    /\ Unset(RequiredValues[v[2]].kind, LocalValue(d, v))
    /\ Unset(RequiredValues[v[2]].kind, GlobalValue(d, v))

MissingValues(d) == {v \in ValuesOf(d) : IsMissing(d, v)}

\* v is read before w: receivers in list order, within a receiver the lists
\* in the order of the pass, within a list the configs in order, within a
\* config the fields in order.
ReadBefore(v, w) ==
    LET a == <<v[1], RequiredValues[v[2]].rank, v[3], v[2]>>
        b == <<w[1], RequiredValues[w[2]].rank, w[3], w[2]>>
    IN  \E i \in 1..4 : a[i] < b[i] /\ \A j \in 1..(i - 1) : a[j] = b[j]

RequiredTexts == {RequiredValues[k].text : k \in 1..Len(RequiredValues)}

RECURSIVE SetToSeq(_)
SetToSeq(S) ==
    IF S = {} THEN <<>>
    ELSE LET x == CHOOSE y \in S : TRUE IN <<x>> \o SetToSeq(S \ {x})

\* The MatcherSet of an exact and a regex part: one exact matcher per pair
\* of the exact map, one regex matcher per pair of the regex map, sorted.
MatcherSet(exact, regex) ==
    NewMatchers(SetToSeq({NewMatcher(k, exact[k]) : k \in DOMAIN exact}
                             \cup {NewRegexMatcher(k, regex[k].Regexp) : k \in DOMAIN regex}))

\* The results of resolving lset at node, as paths from the root (the
\* indexes of the children taken), in the order they are found.
RECURSIVE RouteMatch(_, _, _)
RECURSIVE RouteMatchChildren(_, _, _, _)
RouteMatchChildren(node, lset, path, i) ==
    IF i > Len(node.Routes) THEN <<>>
    ELSE LET matches == RouteMatch(node.Routes[i], lset, Append(path, i))
         IN  IF matches # <<>> /\ ~node.Routes[i].Continue THEN matches
             ELSE matches \o RouteMatchChildren(node, lset, path, i + 1)

RouteMatch(node, lset, path) ==
    IF ~IsTrue(MatchersMatch(MatcherSet(node.Match, node.MatchRE), lset)) THEN <<>>
    ELSE LET all == RouteMatchChildren(node, lset, path, 1)
         IN  IF all = <<>> THEN <<path>> ELSE all

RECURSIVE NodeAt(_, _)
NodeAt(node, path) ==
    IF path = <<>> THEN node ELSE NodeAt(node.Routes[Head(path)], Tail(path))

(***************************************************************************)
(* SpecRoute: a document with a routing tree is loaded, and label sets are *)
(* resolved against the tree of the Config.                                *)
(***************************************************************************)
\* How a child matches and whether it continues.
ChildShapes ==
    {[Match |-> sA :> sA, MatchRE |-> NoLabels, Continue |-> FALSE],
     [Match |-> sA :> sA, MatchRE |-> NoLabels, Continue |-> TRUE],
     [Match |-> sB :> sA, MatchRE |-> NoLabels, Continue |-> FALSE],
     [Match |-> (sA :> sA) @@ (sB :> sA), MatchRE |-> NoLabels, Continue |-> TRUE],
     [Match |-> NoLabels, MatchRE |-> sA :> sAorAB, Continue |-> TRUE],
     [Match |-> NoLabels, MatchRE |-> NoLabels, Continue |-> FALSE]}

\* The children a child may have.
GrandLists ==
    {<<>>,
     <<RouteNode("g1", sB :> sA, NoLabels, FALSE, <<>>)>>,
     <<RouteNode("g1", sB :> sA, NoLabels, TRUE, <<>>),
       RouteNode("g2", NoLabels, sB :> sDotStar, FALSE, <<>>)>>}

\* The receivers of the children, by position.
ChildReceivers == <<"c1", "c2", "c3", "c4">>

RoutingTrees ==
    {RouteNode("r0", NoLabels, NoLabels, FALSE,
               [i \in 1..Len(ks) |->
                   RouteNode(ChildReceivers[i], ks[i][1].Match, ks[i][1].MatchRE,
                             ks[i][1].Continue, ks[i][2])]) :
        ks \in SeqsUpTo(ChildShapes \X GrandLists, MaxChildren)}

RoutingReceivers ==
    [i \in 1..(Len(ChildReceivers) + 3) |->
        IF i <= Len(ChildReceivers) THEN ReceiverOf(ChildReceivers[i])
        ELSE ReceiverOf(<<"r0", "g1", "g2">>[i - Len(ChildReceivers)])]

RoutingDocs ==
    {Document(NoGlobal, t, RoutingReceivers) : t \in RoutingTrees}
        \cup {Document(NoGlobal, RouteNode("r0", NoLabels, NoLabels, TRUE, <<>>),
                       RoutingReceivers)}

RouteInit ==
    /\ MatcherIdle
    /\ ReloadIdle
    /\ SecretIdle
    /\ MatchersIdle
    /\ doc \in RoutingDocs
    /\ res = Nil
    /\ rcall = Nil
    /\ icall = Nil

RouteMatchCall ==
    /\ res # Nil
    /\ res.cfg # Nil
    /\ \E lset \in LabelSets :
           rcall' = [lset |-> lset, out |-> RouteMatch(res.cfg.Route, lset, <<>>)]
    /\ UNCHANGED <<doc, res, icall>>
    /\ UNCHANGED <<matcherVars, matchersVars, reloadVars, secretVars>>

RouteNext ==
    \/ LoadCall
    \/ RouteMatchCall

SpecRoute == RouteInit /\ [][RouteNext]_vars

\* A label set satisfies an exact map and a map of patterns, as the
\* document gives them: every exact pair equals the label's value, every
\* pattern matches the whole of it; an absent label reads as "".
SatisfiesMaps(lset, exact, patterns) ==
    /\ \A k \in DOMAIN exact : Lookup(lset, k) = exact[k]
    /\ \A k \in DOMAIN patterns :
           \E alt \in Alts(patterns[k]) : alt = sDotStar \/ alt = Lookup(lset, k)

Satisfies(lset, node) == SatisfiesMaps(lset, node.Match, node.MatchRE)

RECURSIVE PathsOf(_)
PathsOf(node) ==
    {<<>>} \cup UNION {{<<i>> \o p : p \in PathsOf(node.Routes[i])} :
                          i \in 1..Len(node.Routes)}

\* The children of a node that a resolution tests: those up to the first
\* one that is satisfied and has continue = false.
Tested(node, lset, i) ==
    \A j \in 1..(i - 1) : Satisfies(lset, node.Routes[j]) => node.Routes[j].Continue

\* The nodes that are results: every node on the way is satisfied and is
\* tested, and no child of the node itself is satisfied.
ResultPaths(root, lset) ==
    {p \in PathsOf(root) :
        /\ \A k \in 0..Len(p) : Satisfies(lset, NodeAt(root, SubSeq(p, 1, k)))
        /\ \A k \in 1..Len(p) : Tested(NodeAt(root, SubSeq(p, 1, k - 1)), lset, p[k])
        /\ \A i \in 1..Len(NodeAt(root, p).Routes) :
               ~Satisfies(lset, NodeAt(root, p).Routes[i])}

\* Declared order: p comes before q in a depth-first walk.
PathBefore(p, q) ==
    \E i \in 1..Len(p) :
        /\ i <= Len(q)
        /\ p[i] < q[i]
        /\ \A j \in 1..(i - 1) : p[j] = q[j]

ReceiversOf(root, paths) == [i \in 1..Len(paths) |-> NodeAt(root, paths[i]).Receiver]

SatisfiedChildren(node, lset) ==
    {i \in 1..Len(node.Routes) : Satisfies(lset, node.Routes[i])}

\* C8: a resolution tests the children of a matching node in declared
\* order; a matching child with continue = false ends the level, one with
\* continue = true lets the following siblings be tested, each matching one
\* adding its results; a node none of whose children match is itself the
\* result.  So a label set matching no child of the root resolves to the
\* root receiver alone, a single matching child with continue = false and no
\* matching child of its own resolves to that child's receiver alone, and a
\* continue = true child followed by a second matching sibling resolves to
\* the receivers of both, in declared order.
C8_RouteResolution ==
    rcall # Nil =>
        LET root == doc.route
            lset == rcall.lset
            out  == rcall.out
            sat  == SatisfiedChildren(root, lset)
            leaf(i) == SatisfiedChildren(root.Routes[i], lset) = {}
        IN  /\ {out[i] : i \in 1..Len(out)} = ResultPaths(root, lset)
            /\ \A i, j \in 1..Len(out) : i < j => PathBefore(out[i], out[j])
            /\ sat = {} => ReceiversOf(root, out) = <<root.Receiver>>
            /\ \A i \in sat :
                   (/\ \A j \in sat : j >= i
                    /\ ~root.Routes[i].Continue
                    /\ leaf(i))
                       => ReceiversOf(root, out) = <<root.Routes[i].Receiver>>
            /\ \A i, k \in sat :
                   (/\ i < k
                    /\ \A j \in sat : j >= i /\ (j > k \/ j = i \/ j = k)
                    /\ root.Routes[i].Continue
                    /\ leaf(i) /\ leaf(k))
                       => /\ Len(out) >= 2
                          /\ SubSeq(ReceiversOf(root, out), 1, 2) =
                                 <<root.Routes[i].Receiver, root.Routes[k].Receiver>>
                          /\ ~root.Routes[k].Continue => Len(out) = 2

\* The first child has continue = true and matches, the second matches
\* too: the label set resolved to both receivers, in that order.
C8_Witness ==
    /\ rcall # Nil
    /\ Len(doc.route.Routes) = 2
    /\ doc.route.Routes[1].Continue
    /\ doc.route.Routes[1].Match = (sA :> sA)
    /\ doc.route.Routes[2].Match = (sB :> sA)
    /\ doc.route.Routes[1].Routes = <<>>
    /\ doc.route.Routes[2].Routes = <<>>
    /\ rcall.lset = (sA :> sA) @@ (sB :> sA)
    /\ ReceiversOf(doc.route, rcall.out) = <<"c1", "c2">>

(***************************************************************************)
(* The inhibition predicate.  The code that applies an InhibitRule to two  *)
(* label sets is not part of src/config/config.go; it is modelled from its *)
(* description, on top of the matchers of the code and of the rule as the  *)
(* decode builds it.                                                       *)
(***************************************************************************)
Inhibits(rule, source, target) ==
    /\ IsTrue(MatchersMatch(MatcherSet(rule.SourceMatch, rule.SourceMatchRE), source))
    /\ IsTrue(MatchersMatch(MatcherSet(rule.TargetMatch, rule.TargetMatchRE), target))
    /\ \A n \in rule.Equal : Lookup(source, n) = Lookup(target, n)

(***************************************************************************)
(* SpecInhibit: a document with one inhibit rule is loaded, and the rule   *)
(* of the Config is applied to pairs of label sets.                        *)
(***************************************************************************)
InhibitRule(sourceMatch, sourceMatchRE, targetMatch, targetMatchRE, equal) ==
    [SourceMatch |-> sourceMatch, SourceMatchRE |-> sourceMatchRE,
     TargetMatch |-> targetMatch, TargetMatchRE |-> targetMatchRE, Equal |-> equal]

InhibitRules ==
    {InhibitRule(sm, smre, tm, tmre, eq) :
        sm   \in {NoLabels, sA :> sA},
        smre \in {NoLabels, sA :> sAorAB, sB :> sDotStar},
        tm   \in {NoLabels, sA :> sAB, sB :> sEmpty},
        tmre \in {NoLabels, sB :> sA},
        eq   \in {{}, {sB}}}
        \cup {InhibitRule(sDigit :> sA, NoLabels, NoLabels, NoLabels, {}),
              InhibitRule(NoLabels, NoLabels, NoLabels, sA :> sParen, {})}

\* The label sets of the alerts: the label "a" absent or with a non-empty
\* value, the label "b" absent or with any value.
AlertLabelSets == {l \in LabelSets : sA \in DOMAIN l => l[sA] # sEmpty}

InhibitDocs ==
    {[Document(NoGlobal, Leaf("r1"), <<ReceiverOf("r1")>>) EXCEPT !.inhibit_rules = <<rule>>] :
        rule \in InhibitRules}

InhibitInit ==
    /\ MatcherIdle
    /\ ReloadIdle
    /\ SecretIdle
    /\ MatchersIdle
    /\ doc \in InhibitDocs
    /\ res = Nil
    /\ rcall = Nil
    /\ icall = Nil

InhibitCall ==
    /\ res # Nil
    /\ res.cfg # Nil
    /\ \E i \in 1..Len(res.cfg.InhibitRules) : \E source \in AlertLabelSets, target \in AlertLabelSets :
           icall' = [rule |-> i, source |-> source, target |-> target,
                     out |-> Inhibits(res.cfg.InhibitRules[i], source, target)]
    /\ UNCHANGED <<doc, res, rcall>>
    /\ UNCHANGED <<matcherVars, matchersVars, reloadVars, secretVars>>

InhibitNext ==
    \/ LoadCall
    \/ InhibitCall

SpecInhibit == InhibitInit /\ [][InhibitNext]_vars

\* C9: the suppression predicate of a rule is true of (source, target)
\* exactly when source satisfies the rule's source_match and
\* source_match_re together, target satisfies its target_match and
\* target_match_re, and every label of equal has the same value on both
\* sides, a label absent on both sides counting as equal.
C9_InhibitPredicate ==
    icall # Nil =>
        LET rule   == doc.inhibit_rules[icall.rule]
            source == icall.source
            target == icall.target
            same(n) == \/ n \notin DOMAIN source /\ n \notin DOMAIN target
                       \/ Lookup(source, n) = Lookup(target, n)
        IN  icall.out <=>
                /\ SatisfiesMaps(source, rule.SourceMatch, rule.SourceMatchRE)
                /\ SatisfiesMaps(target, rule.TargetMatch, rule.TargetMatchRE)
                /\ \A n \in rule.Equal : same(n)

\* A rule with a source regexp, a target value and an equal label: the
\* source matched the regexp, the target had the value, the equal label was
\* absent on both sides, and the predicate was true.
C9_Witness ==
    /\ icall # Nil
    /\ doc.inhibit_rules[1] =
           InhibitRule(NoLabels, sA :> sAorAB, sA :> sAB, NoLabels, {sB})
    /\ icall.source = (sA :> sA)
    /\ icall.target = (sA :> sAB)
    /\ icall.out

\* ---------------------------------------------------------------------
\* Receiver names (C11), under SpecDefaults.

\* The receivers whose name a receiver before them in the list has.
Repeats(d) ==
    {j \in 1..Len(d.receivers) :
        \E i \in 1..(j - 1) : d.receivers[i].Name = d.receivers[j].Name}

FirstRepeat(d) == CHOOSE j \in Repeats(d) : \A k \in Repeats(d) : j <= k

NotUnique == "notification config name is not unique"

\* A hook of the plain decode returns an error.
DecodeFails(d) ==
    \/ d.route # Nil /\ RouteUnmarshalYAML(d.route) # NoError
    \/ InhibitRulesUnmarshalYAML(d.inhibit_rules, 1) # NoError
    \/ ReceiversUnmarshalYAML(d.receivers, 1) # NoError

\* C11, as stated: a receivers list in which two receivers share a name
\* fails to load with the "not unique" error naming the first repeated
\* name in list order, and a list of distinct names never gives that error.
C11_DuplicateNameAlwaysReported ==
    res # Nil =>
        IF Repeats(doc) # {}
        THEN res.err = Err(NotUnique, doc.receivers[FirstRepeat(doc)].Name)
        ELSE res.err.text # NotUnique

\* C11, amended: a receivers list in which two receivers share a name
\* fails to load, returning no Config; a "not unique" error names the name
\* of the first receiver, in list order, whose name a receiver before it
\* has, and it is the error of the load unless the document fails to
\* decode or a receiver before that one misses a required value; a list
\* of distinct names never gives that error.
C11_DuplicateName ==
    res # Nil =>
        /\ Repeats(doc) # {} => (res.err # NoError /\ res.cfg = Nil)
        /\ res.err.text = NotUnique =>
               /\ Repeats(doc) # {}
               /\ res.err.arg = doc.receivers[FirstRepeat(doc)].Name
        /\ (/\ Repeats(doc) # {}
            /\ ~DecodeFails(doc)
            /\ \A v \in MissingValues(doc) : v[1] >= FirstRepeat(doc))
               => res.err = Err(NotUnique, doc.receivers[FirstRepeat(doc)].Name)
        /\ Repeats(doc) = {} => res.err.text # NotUnique

\* The names r1, r2, r2, r1: the error names r2, the first name met twice.
C11_Witness ==
    /\ res # Nil
    /\ Len(doc.receivers) = 4
    /\ doc.receivers[1].Name = "r1"
    /\ doc.receivers[3].Name = "r2"
    /\ doc.receivers[2].Name = "r2"
    /\ res.err = Err(NotUnique, "r2")

(***************************************************************************)
(* SpecGroup: Load on documents whose root or whose child carries a        *)
(* group_by list and the three durations.                                  *)
(***************************************************************************)
MaxGroupBy == 3

GroupByLists == SeqsUpTo({sA, sB, sWildcard, sDigit}, MaxGroupBy)

Durations == {Nil, Duration(0), Duration(1)}

\* The node that carries the settings: receiver rc, group_by gs, the
\* durations w, i and r.
GroupNode(rc, gs, w, i, r) ==
    [Leaf(rc) EXCEPT !.GroupByStr = gs, !.GroupWait = w,
                     !.GroupInterval = i, !.RepeatInterval = r]

\* Every group_by list without durations, and every combination of
\* durations under a group_by list of at most one entry.
GroupSettings ==
    {<<gs, Nil, Nil, Nil>> : gs \in GroupByLists}
        \cup {<<gs, w, i, r>> : gs \in SeqsUpTo({sA, sWildcard, sDigit}, 1),
                                w \in Durations, i \in Durations, r \in Durations}

\* The node as the root, as the child of a plain root, and as a child that
\* names an undefined receiver.
GroupDocs ==
    {Document(NoGlobal, t, <<ReceiverOf("r1")>>) :
        t \in UNION {{GroupNode("r1", x[1], x[2], x[3], x[4]),
                      [Leaf("r1") EXCEPT !.Routes = <<GroupNode("r1", x[1], x[2], x[3], x[4])>>],
                      [Leaf("r1") EXCEPT !.Routes = <<GroupNode("zz", x[1], x[2], x[3], x[4])>>]} :
                        x \in GroupSettings}}

GroupInit ==
    /\ MatcherIdle
    /\ ReloadIdle
    /\ SecretIdle
    /\ MatchersIdle
    /\ doc \in GroupDocs
    /\ res = Nil
    /\ rcall = Nil
    /\ icall = Nil

GroupNext == LoadCall

SpecGroup == GroupInit /\ [][GroupNext]_vars

\* The nodes of a document of GroupDocs, as paths from the root.
GroupPaths(d) == {<<>>} \cup {<<k>> : k \in 1..Len(d.route.Routes)}

\* The document with field f of the node at path p set to v.
WithField(d, p, f, v) ==
    IF p = <<>> THEN [d EXCEPT !.route[f] = v]
    ELSE [d EXCEPT !.route.Routes[p[1]][f] = v]

HasWildcard(strs) == \E k \in 1..Len(strs) : strs[k] = sWildcard
HasExplicit(strs) == \E k \in 1..Len(strs) : strs[k] # sWildcard
RepeatsExplicit(strs) ==
    \E j, k \in 1..Len(strs) : j < k /\ strs[j] = strs[k] /\ strs[j] # sWildcard

\* C12: for every route node, a group_by list that holds the wildcard
\* "..." together with an explicit name fails to load, in whatever order
\* the entries stand; a list that repeats an explicit name fails to load;
\* and a list that holds only the wildcard loads (wherever the document
\* loads without that list) with GroupByAll set and GroupBy empty.
C12_GroupBy ==
    res # Nil =>
        \A p \in GroupPaths(doc) :
            LET strs == NodeAt(doc.route, p).GroupByStr
            IN  /\ (HasWildcard(strs) /\ HasExplicit(strs))
                       => (res.err # NoError /\ res.cfg = Nil)
                /\ RepeatsExplicit(strs) => (res.err # NoError /\ res.cfg = Nil)
                /\ (/\ HasWildcard(strs)
                    /\ ~HasExplicit(strs)
                    /\ Load(WithField(doc, p, "GroupByStr", <<>>)).err = NoError)
                       => /\ res.err = NoError
                          /\ NodeAt(res.cfg.Route, p).GroupByAll
                          /\ NodeAt(res.cfg.Route, p).GroupBy = <<>>

\* A child with group_by: [a, "..."], the wildcard last, fails to load.
C12_Witness ==
    /\ res # Nil
    /\ Len(doc.route.Routes) = 1
    /\ doc.route.Routes[1].GroupByStr = <<sA, sWildcard>>
    /\ res.cfg = Nil
    /\ res.err.text = "cannot have wildcard group_by and other other labels at the same time"

\* A root with group_by: ["..."] loads with the flag set.
C12_WitnessWildcardOnly ==
    /\ res # Nil
    /\ doc.route.GroupByStr = <<sWildcard>>
    /\ res.err = NoError
    /\ res.cfg.Route.GroupByAll
    /\ res.cfg.Route.GroupBy = <<>>

\* ---------------------------------------------------------------------
\* Durations (C13), under SpecGroup.

DurationFields == {"GroupWait", "GroupInterval", "RepeatInterval"}

\* C13, as stated: for every route node and each of group_wait,
\* group_interval and repeat_interval, a field given as zero makes the load
\* fail, and a field not given is nil in the loaded route.
C13_ZeroDurationAlwaysFails ==
    res # Nil =>
        \A p \in GroupPaths(doc) : \A f \in DurationFields :
            /\ NodeAt(doc.route, p)[f] = Duration(0) => res.err # NoError
            /\ (NodeAt(doc.route, p)[f] = Nil /\ res.err = NoError)
                   => NodeAt(res.cfg.Route, p)[f] = Nil

\* C13, amended: for every route node, a group_interval or a
\* repeat_interval given as zero makes the load fail with the error of that
\* field, returning no Config, and only a zero value gives such an error; a
\* group_wait given as zero is accepted: the load ends as it does with a
\* positive group_wait; after a successful load each of the three fields
\* holds what the document gave, nil if it gave nothing.
C13_ZeroInterval ==
    res # Nil =>
        \A p \in GroupPaths(doc) :
            LET node == NodeAt(doc.route, p)
            IN  /\ (node.GroupInterval = Duration(0) \/ node.RepeatInterval = Duration(0))
                       => (res.err # NoError /\ res.cfg = Nil)
                /\ (/\ node.GroupInterval = Duration(0)
                    /\ RouteNodeError(node) = NoError
                    /\ GroupByError(node) = NoError)
                       => res.err = Err("group_interval cannot be zero", "")
                /\ res.err = Err("group_interval cannot be zero", "")
                       => \E q \in GroupPaths(doc) :
                              NodeAt(doc.route, q).GroupInterval = Duration(0)
                /\ res.err = Err("repeat_interval cannot be zero", "")
                       => \E q \in GroupPaths(doc) :
                              NodeAt(doc.route, q).RepeatInterval = Duration(0)
                /\ node.GroupWait = Duration(0)
                       => res.err = Load(WithField(doc, p, "GroupWait", Duration(1))).err
                /\ res.err = NoError
                       => \A f \in DurationFields : NodeAt(res.cfg.Route, p)[f] = node[f]

\* A child with repeat_interval: 0s and nothing else set fails to load;
\* its group_wait is not given.
C13_Witness ==
    /\ res # Nil
    /\ Len(doc.route.Routes) = 1
    /\ doc.route.Routes[1].RepeatInterval = Duration(0)
    /\ doc.route.Routes[1].GroupInterval = Nil
    /\ doc.route.Routes[1].GroupWait = Nil
    /\ doc.route.Routes[1].GroupByStr = <<>>
    /\ res.cfg = Nil
    /\ res.err = Err("repeat_interval cannot be zero", "")

\* A root with group_wait: 0s and no other duration loads, the zero kept.
C13_WitnessGroupWaitZero ==
    /\ res # Nil
    /\ doc.route.GroupWait = Duration(0)
    /\ doc.route.GroupInterval = Nil
    /\ res.err = NoError
    /\ res.cfg.Route.GroupWait = Duration(0)
    /\ res.cfg.Route.GroupInterval = Nil

\* ---------------------------------------------------------------------
\* Trailing "/" of the API URLs (C14), under SpecDefaults.

SlashLists == {"OpsGenieConfigs", "WechatConfigs", "VictorOpsConfigs"}

\* The channel configs of the three lists: receiver, list, index.
SlashConfigs(d) ==
    {x \in (1..Len(d.receivers)) \X SlashLists \X (1..MaxConfigs) :
        x[3] <= Len(d.receivers[x[1]][x[2]])}

\* The URL object the loaded config points to.
LoadedAPIURL(cfg, x) == cfg.heap[cfg.Receivers[x[1]][x[2]][x[3]].APIURL]

\* C14: after every successful load the path of the API URL of every
\* OpsGenie, WeChat and VictorOps config ends with "/", whether the URL
\* was given in the config or taken from the global block, and however
\* many configs took the same global URL.
C14_TrailingSlash ==
    (res # Nil /\ res.err = NoError) =>
        \A x \in SlashConfigs(doc) :
            /\ res.cfg.Receivers[x[1]][x[2]][x[3]].APIURL # NilRef
            /\ HasSlashSuffix(LoadedAPIURL(res.cfg, x).path)

\* Two VictorOps configs without URL took the global URL, given without a
\* trailing "/", and both read it with one.
C14_Witness ==
    /\ res # Nil
    /\ res.err = NoError
    /\ Len(doc.receivers) = 1
    /\ Len(doc.receivers[1].VictorOpsConfigs) = 2
    /\ doc.receivers[1].VictorOpsConfigs[1].APIURL = Nil
    /\ doc.receivers[1].VictorOpsConfigs[2].APIURL = Nil
    /\ GlobalOf(doc).VictorOpsAPIURL = UrlGlobal
    /\ ~HasSlashSuffix(UrlGlobal.path)
    /\ res.cfg.Receivers[1].VictorOpsConfigs[1].APIURL = res.cfg.Receivers[1].VictorOpsConfigs[2].APIURL
    /\ HasSlashSuffix(LoadedAPIURL(res.cfg, <<1, "VictorOpsConfigs", 2>>).path)

\* ---------------------------------------------------------------------
\* The global block across the receivers pass (C17), under SpecDefaults.

\* The global block of a Config, each pointer read through.
GlobalValues(cfg) ==
    [f \in DOMAIN cfg.Global |->
        IF f \in GlobalPointerFields
        THEN (IF cfg.Global[f] = NilRef THEN Nil ELSE cfg.heap[cfg.Global[f]])
        ELSE cfg.Global[f]]

\* C17: the pass over the receivers leaves every field of the global block
\* as the decode set it; in particular the global OpsGenie, WeChat and
\* VictorOps API URLs keep their path when a config that took its URL from
\* the global block is given a trailing "/".
C17_GlobalUnchanged ==
    (res # Nil /\ res.err = NoError) => GlobalValues(res.cfg) = GlobalOf(doc)

\* The same for the fields that are not the three API URLs: these the pass
\* does leave alone.
C17_OtherGlobalFieldsUnchanged ==
    (res # Nil /\ res.err = NoError) =>
        \A f \in DOMAIN res.cfg.Global \ {"OpsGenieAPIURL", "WeChatAPIURL", "VictorOpsAPIURL"} :
            GlobalValues(res.cfg)[f] = GlobalOf(doc)[f]

\* An OpsGenie config without URL under a global URL without trailing "/":
\* after the load the global URL has one.
C17_GlobalURLRewritten ==
    /\ res # Nil
    /\ res.err = NoError
    /\ doc.receivers[1].OpsGenieConfigs # <<>>
    /\ doc.receivers[1].OpsGenieConfigs[1].APIURL = Nil
    /\ GlobalOf(doc).OpsGenieAPIURL = UrlGlobal
    /\ GlobalValues(res.cfg).OpsGenieAPIURL = WithSlash(UrlGlobal)
    /\ WithSlash(UrlGlobal) # UrlGlobal

(***************************************************************************)
(* Secret and SecretURL: marshaling and unmarshaling.                      *)
(*                                                                         *)
(* A YAML scalar handed to or returned by a hook is Nil (null) or          *)
(* [str |-> s].  JSON data is [quoted, escaped, text]: the text, whether   *)
(* it stands between double quotes, and whether its <, > and & are written *)
(* as \\u003c, \\u003e and \\u0026.  A url.URL is [Scheme, Host, Path].     *)
(***************************************************************************)
secretToken == "<secret>"

YAMLString(s) == [str |-> s]

\* The texts of the model that hold <, > or &.
HasHTMLChars(t) == t \in {"<secret>"}

\* json.Marshal of a string: quoted, with <, > and & escaped.
JSONMarshalString(t) == [quoted |-> TRUE, escaped |-> HasHTMLChars(t), text |-> t]

\* init(): secretTokenJSON = string(json.Marshal(secretToken)).
secretTokenJSON == JSONMarshalString(secretToken)

\* string(data) for the bytes of s as they are.
RawJSON(s) == [quoted |-> FALSE, escaped |-> FALSE, text |-> s]

\* json.Unmarshal(data, &s) for a string s: data must be a JSON string.
JSONUnmarshalString(data) ==
    IF data.quoted THEN [out |-> data.text, err |-> NoError]
    ELSE [out |-> "", err |-> Err("invalid character", "")]

EmptyURL == [Scheme |-> "", Host |-> "", Path |-> ""]

\* url.Parse on the strings of the model.
urlParse(s) ==
    CASE s = "https://h/x" -> [Scheme |-> "https", Host |-> "h", Path |-> "/x"]
      [] s = "ftp://h/x"   -> [Scheme |-> "ftp", Host |-> "h", Path |-> "/x"]
      [] s = "https://"    -> [Scheme |-> "https", Host |-> "", Path |-> ""]
      [] OTHER             -> [Scheme |-> "", Host |-> "", Path |-> s]

\* parseURL: http or https, and a host.
parseURL(s) ==
    LET u == urlParse(s)
    IN  IF u.Scheme # "http" /\ u.Scheme # "https"
        THEN [out |-> Nil, err |-> Err("unsupported scheme for URL", u.Scheme)]
        ELSE IF u.Host = ""
        THEN [out |-> Nil, err |-> Err("missing host for URL", "")]
        ELSE [out |-> [URL |-> u], err |-> NoError]

\* Secret.MarshalYAML
SecretMarshalYAML(s) == IF s # "" THEN YAMLString(secretToken) ELSE Nil

\* Secret.UnmarshalYAML: the plain decode of a string.
SecretUnmarshalYAML(node) == [out |-> node.str, err |-> NoError]

\* Secret.MarshalJSON
SecretMarshalJSON(s) == JSONMarshalString(secretToken)

\* Secret has no UnmarshalJSON: encoding/json decodes a string.
SecretUnmarshalJSON(data) == JSONUnmarshalString(data)

\* URL.UnmarshalYAML, into u.
URLUnmarshalYAML(u, node) ==
    IF parseURL(node.str).err # NoError THEN [out |-> u, err |-> parseURL(node.str).err]
    ELSE [out |-> parseURL(node.str).out, err |-> NoError]

\* URL.UnmarshalJSON, into u.
URLUnmarshalJSON(u, data) ==
    IF JSONUnmarshalString(data).err # NoError
    THEN [out |-> u, err |-> JSONUnmarshalString(data).err]
    ELSE IF parseURL(data.text).err # NoError
    THEN [out |-> u, err |-> parseURL(data.text).err]
    ELSE [out |-> parseURL(data.text).out, err |-> NoError]

\* SecretURL.MarshalYAML
SecretURLMarshalYAML(s) == IF s.URL # Nil THEN YAMLString(secretToken) ELSE Nil

\* A mutant of SecretURLUnmarshalYAML: the placeholder is parsed as a URL.
SecretURLUnmarshalYAMLParsed(s, node) == URLUnmarshalYAML(s, node)

\* SecretURL.UnmarshalYAML, into s.
SecretURLUnmarshalYAML(s, node) ==
    IF node.str = secretToken THEN [out |-> [URL |-> EmptyURL], err |-> NoError]
    ELSE URLUnmarshalYAML(s, node)

\* SecretURL.MarshalJSON
SecretURLMarshalJSON(s) == JSONMarshalString(secretToken)

\* SecretURL.UnmarshalJSON, into s.
SecretURLUnmarshalJSON(s, data) ==
    IF data = RawJSON(secretToken) \/ data = secretTokenJSON
    THEN [out |-> [URL |-> EmptyURL], err |-> NoError]
    ELSE URLUnmarshalJSON(s, data)

(***************************************************************************)
(* SpecSecret: a Secret or a SecretURL is marshaled, and strings are       *)
(* unmarshaled into one.                                                   *)
(***************************************************************************)
Secrets == {"", "pw", secretToken}

SecretURLs ==
    {[URL |-> Nil], [URL |-> EmptyURL],
     [URL |-> [Scheme |-> "https", Host |-> "h", Path |-> "/x"]]}

SecretTexts == {secretToken, "pw", "https://h/x", "ftp://h/x", "https://", ""}

YAMLInputs == {YAMLString(t) : t \in SecretTexts}

JSONInputs ==
    {JSONMarshalString(t) : t \in SecretTexts}
        \cup {[quoted |-> TRUE, escaped |-> FALSE, text |-> secretToken], RawJSON(secretToken)}

SecretInit ==
    /\ MatcherIdle
    /\ MatchersIdle
    /\ LoadIdle
    /\ ReloadIdle
    /\ sv \in {[kind |-> "Secret", v |-> [s |-> s]] : s \in Secrets}
               \cup {[kind |-> "SecretURL", v |-> s] : s \in SecretURLs}
    /\ enc = Nil
    /\ dec = Nil

SecretOthersUnchanged == UNCHANGED <<matcherVars, matchersVars, loadVars, reloadVars>>

SecretMarshalYAMLCall ==
    /\ sv.kind = "Secret"
    /\ enc' = [format |-> "yaml", of |-> sv, out |-> SecretMarshalYAML(sv.v.s)]
    /\ UNCHANGED <<sv, dec>>
    /\ SecretOthersUnchanged

SecretMarshalJSONCall ==
    /\ sv.kind = "Secret"
    /\ enc' = [format |-> "json", of |-> sv, out |-> SecretMarshalJSON(sv.v.s)]
    /\ UNCHANGED <<sv, dec>>
    /\ SecretOthersUnchanged

SecretURLMarshalYAMLCall ==
    /\ sv.kind = "SecretURL"
    /\ enc' = [format |-> "yaml", of |-> sv, out |-> SecretURLMarshalYAML(sv.v)]
    /\ UNCHANGED <<sv, dec>>
    /\ SecretOthersUnchanged

SecretURLMarshalJSONCall ==
    /\ sv.kind = "SecretURL"
    /\ enc' = [format |-> "json", of |-> sv, out |-> SecretURLMarshalJSON(sv.v)]
    /\ UNCHANGED <<sv, dec>>
    /\ SecretOthersUnchanged

\* A Secret as the value in hand holds it.
Boxed(r) == [out |-> [s |-> r.out], err |-> r.err]

\* The value is replaced by what the hook decoded, if it returned no error.
Unmarshaled(kind, format, data, r) ==
    /\ dec' = [kind |-> kind, format |-> format, data |-> data,
               into |-> sv.v, out |-> r.out, err |-> r.err]
    /\ sv' = IF r.err = NoError THEN [kind |-> kind, v |-> r.out] ELSE sv
    /\ UNCHANGED enc
    /\ SecretOthersUnchanged

SecretUnmarshalYAMLCall ==
    /\ sv.kind = "Secret"
    /\ \E node \in YAMLInputs :
           Unmarshaled("Secret", "yaml", node, Boxed(SecretUnmarshalYAML(node)))

SecretUnmarshalJSONCall ==
    /\ sv.kind = "Secret"
    /\ \E data \in JSONInputs :
           Unmarshaled("Secret", "json", data, Boxed(SecretUnmarshalJSON(data)))

SecretURLUnmarshalYAMLCall ==
    /\ sv.kind = "SecretURL"
    /\ \E node \in YAMLInputs :
           Unmarshaled("SecretURL", "yaml", node, SecretURLUnmarshalYAML(sv.v, node))

SecretURLUnmarshalJSONCall ==
    /\ sv.kind = "SecretURL"
    /\ \E data \in JSONInputs :
           Unmarshaled("SecretURL", "json", data, SecretURLUnmarshalJSON(sv.v, data))

SecretNext ==
    \/ SecretMarshalYAMLCall
    \/ SecretMarshalJSONCall
    \/ SecretURLMarshalYAMLCall
    \/ SecretURLMarshalJSONCall
    \/ SecretUnmarshalYAMLCall
    \/ SecretUnmarshalJSONCall
    \/ SecretURLUnmarshalYAMLCall
    \/ SecretURLUnmarshalJSONCall

SpecSecret == SecretInit /\ [][SecretNext]_vars

\* The placeholder as the marshal methods write it.
Placeholder(format) ==
    IF format = "yaml" THEN YAMLString(secretToken) ELSE secretTokenJSON

\* C16, as stated: every Secret and every SecretURL marshals, in YAML and
\* in JSON, to the placeholder "<secret>", and unmarshaling the placeholder,
\* for both types and both formats, gives an empty value that is present
\* and not a value read from the text of the placeholder.
C16_AlwaysPlaceholder ==
    /\ enc # Nil => enc.out = Placeholder(enc.format)
    /\ (dec # Nil /\ dec.data = Placeholder(dec.format)) =>
           /\ dec.err = NoError
           /\ dec.out = IF dec.kind = "Secret" THEN [s |-> ""] ELSE [URL |-> EmptyURL]

\* C16, amended: in JSON every Secret and every SecretURL marshals to the
\* placeholder; in YAML a Secret that is not empty and a SecretURL whose URL
\* is not nil marshal to the placeholder, and an empty Secret and a
\* SecretURL with a nil URL marshal to null.  Unmarshaling the placeholder
\* into a SecretURL (in YAML the string, in JSON the string as the marshal
\* writes it or the bare bytes) gives the empty URL that is not nil;
\* unmarshaling it into a Secret gives the string "<secret>" itself; and a
\* JSON string "<secret>" with < and > unescaped is parsed as a URL and
\* rejected by SecretURL.
C16_Redaction ==
    /\ (enc # Nil /\ enc.format = "json") => enc.out = secretTokenJSON
    /\ (enc # Nil /\ enc.format = "yaml") =>
           enc.out = IF enc.of.kind = "Secret"
                     THEN (IF enc.of.v.s # "" THEN YAMLString(secretToken) ELSE Nil)
                     ELSE (IF enc.of.v.URL # Nil THEN YAMLString(secretToken) ELSE Nil)
    /\ (dec # Nil /\ dec.kind = "SecretURL") =>
           /\ dec.data \in {YAMLString(secretToken), secretTokenJSON, RawJSON(secretToken)}
                  => (dec.err = NoError /\ dec.out = [URL |-> EmptyURL])
           /\ dec.data = [quoted |-> TRUE, escaped |-> FALSE, text |-> secretToken]
                  => (dec.err = Err("unsupported scheme for URL", "") /\ dec.out = dec.into)
           /\ (dec.err = NoError /\ dec.out = [URL |-> EmptyURL])
                  => dec.data \in {YAMLString(secretToken), secretTokenJSON, RawJSON(secretToken)}
    /\ (dec # Nil /\ dec.kind = "Secret") =>
           /\ dec.data = Placeholder(dec.format)
                  => (dec.err = NoError /\ dec.out = [s |-> secretToken])
           /\ dec.format = "yaml" => (dec.err = NoError /\ dec.out = [s |-> dec.data.str])

\* The placeholder was unmarshaled from YAML into a SecretURL, which then
\* marshaled to the placeholder again.
C16_Witness ==
    /\ dec # Nil
    /\ dec.kind = "SecretURL"
    /\ dec.format = "yaml"
    /\ dec.data = YAMLString(secretToken)
    /\ dec.out = [URL |-> EmptyURL]
    /\ sv = [kind |-> "SecretURL", v |-> [URL |-> EmptyURL]]
    /\ enc = [format |-> "yaml", of |-> sv, out |-> YAMLString(secretToken)]

(***************************************************************************)
(* SpecReload: Load is called several times, the calls running one after   *)
(* another or at the same time.  Every object a call allocates (the        *)
(* Config, the global block, route nodes, receivers, channel configs, the  *)
(* URL and HTTP config objects behind pointers) has an identity: the call  *)
(* and the place in the graph.  store holds the objects behind pointers,   *)
(* which are the ones the receivers pass writes to.                        *)
(***************************************************************************)
MaxLoads == 2

\* A mutant of NewObject: the objects of the global block are the same in
\* every call, as with a package-level default value.
NewObjectSharedGlobal(id, ref) == IF ref[1] = "global" THEN <<0, ref>> ELSE <<id, ref>>

\* An allocation made in call id: cfg := &Config{}, the decoder's
\* allocations, and DefaultGlobalConfig() with mustParseURL, which build
\* their values anew in every call.
NewObject(id, ref) == <<id, ref>>

\* The objects of a heap, under the identities of call id.
Tagged(id, heap) ==
    [o \in {NewObject(id, ref) : ref \in DOMAIN heap} |->
        heap[CHOOSE ref \in DOMAIN heap : NewObject(id, ref) = o]]

RouteRef(i, j) == <<"route", "Route", "", i, j>>

\* The places of the graph of a document that loads: the Config, the global
\* block, the route nodes, the receivers, the channel configs.
GraphRefs(d) ==
    {<<"config", "", "", 0, 0>>, GlobalRef("")}
        \cup {RouteRef(0, 0)} \cup {RouteRef(k, 0) : k \in 1..Len(d.route.Routes)}
        \cup {<<"receiver", "", "", r, 0>> : r \in 1..Len(d.receivers)}
        \cup UNION {UNION {{<<"config", l, "", r, c>> : c \in 1..Len(d.receivers[r][l])}
                              : l \in ConfigLists} : r \in 1..Len(d.receivers)}

ReloadDocs ==
    {EmptyDocument,
     Document(NoGlobal, Leaf("r1"), <<ReceiverOf("")>>),
     Document(NoGlobal, Leaf("r1"),
              <<[ReceiverOf("r1") EXCEPT !.WebhookConfigs = <<[HTTPConfig |-> Nil]>>]>>),
     Document(NoGlobal, Leaf("r1"),
              <<[ReceiverOf("r1") EXCEPT !.OpsGenieConfigs = <<OpsGenieConfig(Nil, "k")>>]>>),
     Document(NoGlobal, Leaf("r1"),
              <<[ReceiverOf("r1") EXCEPT !.OpsGenieConfigs = <<OpsGenieConfig(UrlBare, "k")>>]>>),
     Document(NoGlobal, Leaf("r1"),
              <<[ReceiverOf("r1") EXCEPT !.SlackConfigs = <<SlackConfig(Nil)>>]>>)}
        \cup {Document([present |-> TRUE, given |-> EveryKeyGiven], Leaf("r1"), <<rcv>>) :
                 rcv \in {[ReceiverOf("r1") EXCEPT !.OpsGenieConfigs = <<OpsGenieConfig(Nil, "")>>],
                          [ReceiverOf("r1") EXCEPT !.VictorOpsConfigs = <<VictorOpsConfig(Nil, "")>>],
                          ReceiverOf("r1")}}

ReloadInit ==
    /\ MatcherIdle
    /\ MatchersIdle
    /\ LoadIdle
    /\ SecretIdle
    /\ loads = <<>>
    /\ store = <<>>
    /\ inflight = {}

ReloadOthersUnchanged == UNCHANGED <<matcherVars, matchersVars, loadVars, secretVars>>

\* Load returns r to the caller of call id.
Returned(id, d, r) ==
    loads' = Append(loads, [id |-> id, doc |-> d, cfg |-> r.cfg, err |-> r.err])

\* A call of Load up to the end of the plain decode: a document that is
\* empty or that a hook rejects makes Load return; otherwise the decoder
\* has allocated the objects of the document and of the default global
\* block.
LoadDecode ==
    /\ Len(loads) + Cardinality(inflight) < MaxLoads
    /\ \E d \in ReloadDocs :
           LET id == Len(loads) + Cardinality(inflight) + 1
           IN  IF d.empty \/ DecodeFails(d)
               THEN /\ Returned(id, d, Load(d))
                    /\ UNCHANGED <<store, inflight>>
               ELSE /\ store' = Tagged(id, DecodedHeap(GlobalOf(d), d.receivers)) @@ store
                    /\ inflight' = inflight \cup {[id |-> id, doc |-> d]}
                    /\ UNCHANGED loads
    /\ ReloadOthersUnchanged

\* The rest of the call c, u being what yaml.UnmarshalStrict leaves: the
\* receivers pass has written to the objects its configs point to, and
\* Load returns.
Finish(c, u) ==
    /\ store' = Tagged(c.id, u.c.heap) @@ store
    /\ inflight' = inflight \ {c}
    /\ Returned(c.id, c.doc, LoadReturn(u))
    /\ ReloadOthersUnchanged

LoadFinish == \E c \in inflight : Finish(c, UnmarshalStrict(c.doc))

ReloadNext == LoadDecode \/ LoadFinish

SpecReload == ReloadInit /\ [][ReloadNext]_vars

\* The identities of the objects of a returned Config.
ObjectsOf(g) ==
    IF g.cfg = Nil THEN {}
    ELSE {NewObject(g.id, ref) : ref \in GraphRefs(g.doc) \cup DOMAIN g.cfg.heap}

\* The identities of the objects of a call that has not returned.
ObjectsInFlight(c) ==
    {NewObject(c.id, ref) :
        ref \in GraphRefs(c.doc) \cup DOMAIN DecodedHeap(GlobalOf(c.doc), c.doc.receivers)}

\* What a returned Config reads behind its pointers now.
ViewOf(g) == [ref \in DOMAIN g.cfg.heap |-> store[NewObject(g.id, ref)]]

\* C15: the Config graph a Load call returns shares no object with the
\* graph of any other call, returned or still running, and whatever other
\* calls do afterwards or meanwhile, every value read through a returned
\* Config is the one it held when Load returned it.
C15_FreshGraph ==
    /\ \A i, j \in 1..Len(loads) :
           i # j => ObjectsOf(loads[i]) \cap ObjectsOf(loads[j]) = {}
    /\ \A i \in 1..Len(loads) : \A c \in inflight :
           ObjectsOf(loads[i]) \cap ObjectsInFlight(c) = {}
    /\ \A i \in 1..Len(loads) :
           loads[i].cfg # Nil => ViewOf(loads[i]) = loads[i].cfg.heap

\* Two calls returned a Config for the same document, whose OpsGenie
\* config took the global URL; the second call wrote the trailing "/" to
\* its own global URL object.
C15_Witness ==
    /\ Len(loads) = 2
    /\ loads[1].cfg # Nil
    /\ loads[2].cfg # Nil
    /\ loads[1].doc = loads[2].doc
    /\ loads[1].cfg.Receivers[1].OpsGenieConfigs # <<>>
    /\ loads[1].cfg.Receivers[1].OpsGenieConfigs[1].APIURL = GlobalRef("OpsGenieAPIURL")
    /\ GlobalOf(loads[1].doc).OpsGenieAPIURL = UrlGlobal
    /\ loads[1].cfg.heap[GlobalRef("OpsGenieAPIURL")] = WithSlash(UrlGlobal)
    /\ store[NewObject(2, GlobalRef("OpsGenieAPIURL"))] = WithSlash(UrlGlobal)

====
